---- MODULE Spec2Model ----
(***************************************************************************)
(* Model of the Strashun library data pipeline                             *)
(*   src/data/prepare_data.py          (create_data_for_app and stages)    *)
(*   src/data/strashun_verifier.py     (StrashunVerifierV2)                *)
(*   src/data/verifier_final.py        (StrashunFinalVerifier)             *)
(*   src/prototype-2/prepare_clean_data.py                                 *)
(*   src/data/archive-promptotyping-scripts-logs/book_diagnostic.py        *)
(*                                                                         *)
(* pandas calls are modelled by what pandas 2.x does on the values the     *)
(* model draws (format inference on the first non-null element for         *)
(* to_datetime without a format, NaN == NaN in drop_duplicates, fillna     *)
(* row by row).                                                            *)
(***************************************************************************)
EXTENDS Integers, Sequences, FiniteSets, TLC

VARIABLES
    \* ---- standardize_dates on one column (prepare_data.py:123-171)
    dcol,          \* df[col]: the column as standardize_dates sees it
    standardized,  \* the local series `standardized`
    dpc,           \* position inside standardize_dates
    dprev,         \* df[col] as it was when the current call started
    druns          \* number of completed calls on this column

VARIABLES
    \* ---- the verifier scripts, run on one merged transaction table
    vdf,           \* the merged table: self.df / self.data['transactions'] / combined
    vcat,          \* self.data['unique_books']: loaded or not, and its Book_ID values
    v2res,         \* what StrashunVerifierV2.verify_ghost_records recorded
    finres,        \* what StrashunFinalVerifier.verify_all counted
    book_base,     \* the column self.df['book_base'], <<>> while self.df has none
    diagres        \* what book_diagnostic.analyze_books counted

VARIABLES
    \* ---- StrashunVerifierV2.verify_stat and generate_summary_report
    verification_results,  \* self.verification_results
    ncalls,                \* number of calls of verify_stat so far
    summary,               \* the 'summary' of the report and the per-category lines
    spc                    \* "checks" (verifications running), "reported", or "idle"

VARIABLES
    \* ---- the loader/merger of the two verifiers
    lwho,          \* which loader runs: "v2" (load_and_analyze_data) or "final" (load_data)
    lfiles,        \* the transaction files, in the order glob() returned them
    lidx,          \* index of the next file of the `for` loop
    ltables,       \* all_transactions / all_dfs
    ldups,         \* exact duplicates removed so far (sum of the per-file counts)
    ldf,           \* self.data['transactions'] / self.df after the record-id pass
    lidremoved,    \* rows removed by the record-id pass
    lpc            \* "load", "merged", "aborted" (returned False), "crashed" (raised)

VARIABLES
    \* ---- prepare_data.create_data_for_app and prepare_clean_data
    awho,          \* the script that runs: "app" or "clean"
    adir,          \* whether the data directory exists
    afiles,        \* the ledger files found by glob(), in the order returned
    acols,         \* which of the columns 'id' and 'book id' the files have
    aheads,        \* which of the columns "person's name" and 'date' the files have
    aretcol,       \* the header of the files' return-date column
    acatfile,      \* the catalog file: found and readable or not, and its rows
    ledgers,       \* the DataFrame returned by load_and_prepare_ledgers
    catalog,       \* the DataFrame returned by load_master_book_catalog
    borrowers,     \* create_borrowers_list's result
    books,         \* enhance_books_with_transactions' result
    aggregated,    \* create_aggregated_data's result
    network,       \* create_network_data's result
    quality,       \* validate_and_report_data_quality's result
    written,       \* the output files written so far
    clean,         \* create_clean_library_json's output document
    apc            \* the stage reached, "aborted" (returned early) or "crashed" (raised)

VARIABLES
    \* ---- StrashunVerifierV2.find_best_column on one table
    fdf,           \* the table: its number of rows and its columns, in order
    fcall,         \* the keywords and exclude_keywords of the call
    fres           \* what the call ended with: a candidate, None or an exception

VARIABLES
    \* ---- the period tag the two verifiers' loaders give one file
    pwho,          \* the loader: "v2" (detect_period) or "final" (load_data)
    pname,         \* the marks of the naming conventions the file name holds
    pdf,           \* the table read from the file
    ptag           \* the period column of the table, or that the loader raised

varsDates == <<dcol, standardized, dpc, dprev, druns>>
varsApp == <<awho, adir, afiles, acols, aheads, aretcol, acatfile, ledgers, catalog, borrowers, books,
             aggregated, network, quality, written, clean, apc>>
varsVerify == <<vdf, vcat, v2res, finres, book_base, diagres>>
varsLoad == <<lwho, lfiles, lidx, ltables, ldups, ldf, lidremoved, lpc>>
varsStat == <<verification_results, ncalls, summary, spc>>
varsCols == <<fdf, fcall, fres>>
varsPeriod == <<pwho, pname, pdf, ptag>>
vars == <<varsDates, varsVerify, varsLoad, varsApp, varsStat, varsCols, varsPeriod>>

\* ---------------------------------------------------------------- bounds
MaxCol == 3        \* longest date column drawn
MaxRuns == 2       \* standardize_dates is applied at most this often
MaxTable == 3      \* most rows of a merged table handed to the verifiers
MaxFiles == 2      \* most transaction files found by glob()
MaxFileRows == 3   \* most rows over all files of one run
MaxLedger == 3     \* most rows of a single ledger file given to the pipeline
MaxChecks == 2     \* most calls of verify_stat in one run

\* ---------------------------------------------------------------- helpers
Min(S) == CHOOSE x \in S : \A y \in S : x <= y
Max(S) == CHOOSE x \in S : \A y \in S : x >= y

SeqsUpTo(S, n) == UNION { [1..k -> S] : k \in 0..n }

RECURSIVE Concat(_)
Concat(tables) ==
    IF tables = <<>> THEN <<>> ELSE Head(tables) \o Concat(Tail(tables))

\* the rows of tbl at the positions in keep, in table order
Pick(tbl, keep) ==
    LET n == Cardinality(keep)
        at == [k \in 1..n |->
                 CHOOSE i \in keep : Cardinality({ j \in keep : j < i }) = k - 1]
    IN  [k \in 1..n |-> tbl[at[k]]]

\* a file that could not be read, and a file with its rows
Unreadable(name) == [ok |-> FALSE, name |-> name, rows |-> <<>>]
Readable(name, rows) == [ok |-> TRUE, name |-> name, rows |-> rows]

\* the ways glob() can return at most f files, named from Names and holding
\* at most n rows of Pool
RECURSIVE FileSeqs(_, _, _, _)
FileSeqs(Pool, Names, f, n) ==
    IF f = 0 THEN { <<>> }
    ELSE { <<>> } \cup
         UNION { { <<file>> \o rest :
                     rest \in FileSeqs(Pool, Names, f - 1, n - Len(file.rows)) } :
                 file \in { Unreadable(nm) : nm \in Names } \cup
                          { Readable(nm, t) : nm \in Names, t \in SeqsUpTo(Pool, n) } }

\* ===========================================================================
\* Dates.  A raw cell of a date column is a record [sep, a, b, c]: the text
\* "a<sep>b<sep>c" with numeric fields, or no text at all (NullDate), or a
\* text that is no date (JunkDate).
\* ===========================================================================
D(sep, a, b, c) == [sep |-> sep, a |-> a, b |-> b, c |-> c]
NullDate == D("null", 0, 0, 0)
JunkDate == D("junk", 0, 0, 0)
IsTriple(s) == s.sep \in {"/", "-", "."}

\* A parsed timestamp, or NaT.
NaT == [y |-> 0, m |-> 0, d |-> 0]

IsLeap(y) == (y % 4 = 0 /\ y % 100 # 0) \/ y % 400 = 0
DaysInMonth(y, m) ==
    IF m \in {4, 6, 9, 11} THEN 30
    ELSE IF m = 2 THEN (IF IsLeap(y) THEN 29 ELSE 28)
    ELSE 31

\* datetime64[ns] holds 1677-09-21 .. 2262-04-11; %Y wants four digits.
ValidYMD(y, m, d) ==
    /\ y \in 1678..2261
    /\ m \in 1..12
    /\ d \in 1..DaysInMonth(y, m)

MkDate(y, m, d) == IF ValidYMD(y, m, d) THEN [y |-> y, m |-> m, d |-> d] ELSE NaT

\* A strptime format: separator and field order.
Fmt(sep, ord) == [sep |-> sep, ord |-> ord]
NoFormat == Fmt("none", "none")

\* formats = ['%d/%m/%Y', '%Y-%m-%d', '%m/%d/%Y', '%d.%m.%Y', '%Y/%m/%d', '%d-%m-%Y']
formats == << Fmt("/", "dmy"), Fmt("-", "ymd"), Fmt("/", "mdy"),
              Fmt(".", "dmy"), Fmt("/", "ymd"), Fmt("-", "dmy") >>

\* pd.to_datetime(value, format=fmt, errors='coerce') on one value
Strptime(s, fmt) ==
    IF ~IsTriple(s) \/ s.sep # fmt.sep THEN NaT
    ELSE CASE fmt.ord = "dmy" -> MkDate(s.c, s.b, s.a)
           [] fmt.ord = "mdy" -> MkDate(s.c, s.a, s.b)
           [] fmt.ord = "ymd" -> MkDate(s.a, s.b, s.c)
           [] fmt.ord = "ydm" -> MkDate(s.a, s.c, s.b)
           [] OTHER -> NaT

\* dateutil's resolution of three numeric fields with dayfirst=True
ResolveDayfirst(s) ==
    IF s.a > 31
    THEN (IF s.c <= 12 THEN "ydm" ELSE "ymd")
    ELSE (IF s.a > 12 \/ s.b <= 12 THEN "dmy" ELSE "mdy")

\* pandas' guess_datetime_format(first_non_null, dayfirst=True)
GuessFormat(s) ==
    IF ~IsTriple(s) THEN NoFormat
    ELSE LET f == Fmt(s.sep, ResolveDayfirst(s))
         IN  IF Strptime(s, f) = NaT THEN NoFormat ELSE f

\* element-wise parsing, used when no format can be guessed: ISO 8601 text
\* is read as year-month-day, anything else goes through dateutil
ParseElement(s) ==
    IF ~IsTriple(s) THEN NaT
    ELSE IF s.sep = "-" /\ s.a > 31 /\ MkDate(s.a, s.b, s.c) # NaT
         THEN MkDate(s.a, s.b, s.c)
         ELSE Strptime(s, Fmt(s.sep, ResolveDayfirst(s)))

\* standardized = pd.to_datetime(df[col], errors='coerce', dayfirst=True)
ToDatetimeDayfirst(col) ==
    LET nn == { i \in DOMAIN col : col[i] # NullDate } IN
    IF nn = {} THEN [i \in DOMAIN col |-> NaT]
    ELSE LET g == GuessFormat(col[Min(nn)]) IN
         IF g # NoFormat
         THEN [i \in DOMAIN col |-> Strptime(col[i], g)]
         ELSE [i \in DOMAIN col |-> ParseElement(col[i])]

\* ApplyFormat with the mask reduced to df[col].notna()
ApplyFormat_NoIsnaMask(std, col, fmt) ==
    [i \in DOMAIN col |->
        IF col[i] # NullDate THEN Strptime(col[i], fmt) ELSE std[i]]

\* one turn of `for fmt in formats`: mask, parse the masked values, store
ApplyFormat(std, col, fmt) ==
    [i \in DOMAIN col |->
        IF std[i] = NaT /\ col[i] # NullDate THEN Strptime(col[i], fmt) ELSE std[i]]

\* standardized.dt.strftime('%Y-%m-%d').where(standardized.notna(), None)
Strftime(ts) == IF ts = NaT THEN NullDate ELSE D("-", ts.y, ts.m, ts.d)

RECURSIVE ApplyFormats(_, _, _)
ApplyFormats(std, col, k) ==
    IF k > Len(formats) THEN std
    ELSE ApplyFormats(ApplyFormat(std, col, formats[k]), col, k + 1)

\* standardize_dates, for one column, as a whole
StandardizeColumn(col) ==
    LET std == ApplyFormats(ToDatetimeDayfirst(col), col, 1)
    IN  [i \in DOMAIN col |-> Strftime(std[i])]

\* the raw cells a date column is drawn from
RawDates ==
    { NullDate, JunkDate,
      D("/", 1, 2, 1902),      \* 01/02/1902
      D("/", 15, 13, 1902),    \* 15/13/1902  no calendar date in any order
      D("/", 1, 13, 1902),     \* 01/13/1902  month first only
      D("-", 1902, 2, 1),      \* 1902-02-01  canonical
      D("-", 1902, 2, 13),     \* 1902-02-13  canonical
      D(".", 13, 1, 1902),     \* 13.01.1902
      D("/", 1902, 2, 13),     \* 1902/02/13
      D("-", 13, 1, 1902) }    \* 13-01-1902

\* ---- the parts of the state a specification does not use stay idle
IdleDates ==
    /\ dcol = <<>>
    /\ standardized = <<>>
    /\ dpc = "idle"
    /\ dprev = <<>>
    /\ druns = 0

NotRun == [done |-> FALSE]

IdleVerify ==
    /\ vdf = <<>>
    /\ vcat = [loaded |-> FALSE, ids |-> {}]
    /\ v2res = NotRun
    /\ finres = NotRun
    /\ book_base = <<>>
    /\ diagres = NotRun

IdleLoad ==
    /\ lwho = "none"
    /\ lfiles = <<>>
    /\ lidx = 0
    /\ ltables = <<>>
    /\ ldups = 0
    /\ ldf = <<>>
    /\ lidremoved = 0
    /\ lpc = "idle"

None == [none |-> TRUE]

IdleStat ==
    /\ verification_results = <<>>
    /\ ncalls = 0
    /\ summary = None
    /\ spc = "idle"

\* no call of find_best_column under way
IdleCols ==
    /\ fdf = [n |-> 0, columns |-> <<>>]
    /\ fcall = [keywords |-> <<>>, exclude |-> {}]
    /\ fres = [kind |-> "idle"]

\* no file being tagged
IdlePeriod ==
    /\ pwho = "none"
    /\ pname = {}
    /\ pdf = [n |-> 0, columns |-> <<>>]
    /\ ptag = [kind |-> "idle"]

IdleApp ==
    /\ awho = "none"
    /\ adir = FALSE
    /\ afiles = <<>>
    /\ acols = {}
    /\ aheads = {}
    /\ aretcol = ""
    /\ acatfile = [found |-> FALSE, ok |-> FALSE, rows |-> <<>>]
    /\ ledgers = <<>>
    /\ catalog = <<>>
    /\ borrowers = None
    /\ books = None
    /\ aggregated = None
    /\ network = None
    /\ quality = None
    /\ written = {}
    /\ clean = None
    /\ apc = "idle"

\* ---- standardize_dates, one loop turn per step
InitDates ==
    /\ IdleStat
    /\ IdleCols
    /\ IdlePeriod
    /\ IdleVerify
    /\ IdleLoad
    /\ IdleApp
    /\ dcol \in SeqsUpTo(RawDates, MaxCol)
    /\ standardized = <<>>
    /\ dpc = "infer"
    /\ dprev = <<>>
    /\ druns = 0

DatesInfer ==
    /\ dpc = "infer"
    /\ druns < MaxRuns
    /\ standardized' = ToDatetimeDayfirst(dcol)
    /\ dprev' = dcol
    /\ dpc' = "fmt1"
    /\ UNCHANGED <<dcol, druns, varsVerify, varsLoad, varsApp, varsStat, varsCols, varsPeriod>>

FmtPc == << "fmt1", "fmt2", "fmt3", "fmt4", "fmt5", "fmt6", "strftime" >>

DatesTryFormat ==
    \E k \in 1..Len(formats) :
        /\ dpc = FmtPc[k]
        /\ standardized' = ApplyFormat(standardized, dcol, formats[k])
        /\ dpc' = FmtPc[k + 1]
        /\ UNCHANGED <<dcol, dprev, druns, varsVerify, varsLoad, varsApp, varsStat, varsCols, varsPeriod>>

DatesFinish ==
    /\ dpc = "strftime"
    /\ dcol' = [i \in DOMAIN dcol |-> Strftime(standardized[i])]
    /\ druns' = druns + 1
    /\ dpc' = "infer"
    /\ UNCHANGED <<standardized, dprev, varsVerify, varsLoad, varsApp, varsStat, varsCols, varsPeriod>>

NextDates == DatesInfer \/ DatesTryFormat \/ DatesFinish

SpecDates == InitDates /\ [][NextDates]_vars

\* ---------------------------------------------------------------------------
\* What the attempt order promises for the value at position i of col: the
\* inferred timestamp if inference gave one, else the result of the first
\* listed format that parses the text, else NaT; a missing cell gives NaT.
FirstSuccess(col, i) ==
    LET inf == ToDatetimeDayfirst(col)[i]
        ok  == { k \in 1..Len(formats) : Strptime(col[i], formats[k]) # NaT }
    IN  IF col[i] = NullDate THEN NaT
        ELSE IF inf # NaT THEN inf
        ELSE IF ok = {} THEN NaT
        ELSE Strptime(col[i], formats[Min(ok)])

\* C8: inference comes first and the six formats follow in their listed
\* order, each applied only to values still unresolved: no step of the loop
\* changes a value that is already resolved, when the loop ends every value
\* is the result of the first attempt that parsed it (NaT if none did, NaT
\* for a missing cell), and the column written back holds null exactly for
\* the NaT values.
C8_FirstFormatWins ==
    [][ /\ (dpc \in {"fmt1", "fmt2", "fmt3", "fmt4", "fmt5", "fmt6"}) =>
              \A i \in DOMAIN standardized :
                  standardized[i] # NaT => standardized'[i] = standardized[i]
        /\ (dpc' = "strftime") =>
              \A i \in DOMAIN dcol : standardized'[i] = FirstSuccess(dcol, i)
        /\ (dpc = "strftime") =>
              \A i \in DOMAIN dcol :
                  /\ (dcol'[i] = NullDate) <=> (FirstSuccess(dcol, i) = NaT)
                  /\ (dcol[i] = NullDate) => (dcol'[i] = NullDate)
      ]_vars

\* a column in which inference resolved one value, a later format another,
\* and a third text stayed unresolved
C8_Witness ==
    /\ dpc = "strftime"
    /\ \E i, j, k \in DOMAIN dcol :
          /\ ToDatetimeDayfirst(dcol)[i] # NaT
          /\ ToDatetimeDayfirst(dcol)[j] = NaT /\ standardized[j] # NaT
          /\ dcol[k] # NullDate /\ standardized[k] = NaT

\* ---------------------------------------------------------------------------
IsCanonical(s) == s = NullDate \/ (s.sep = "-" /\ MkDate(s.a, s.b, s.c) # NaT)

\* C9: standardize_dates is idempotent: a column of canonical YYYY-MM-DD
\* strings (or nulls) comes back unchanged, and a second application returns
\* what the first returned.
C9_Idempotent ==
    /\ (druns = 1 /\ dpc = "infer" /\ \A i \in DOMAIN dprev : IsCanonical(dprev[i]))
          => dcol = dprev
    /\ (druns = 2 /\ dpc = "infer") => dcol = dprev

\* ===========================================================================
\* Cells of an identifier column: nothing, a number, or a text that is no
\* number.
\* ===========================================================================
Cell(k, v) == [k |-> k, v |-> v]
Null == Cell("null", 0)
Num(n) == Cell("num", n)
Txt == Cell("str", 0)
NotNa(c) == c.k # "null"

\* number of positions of a table that satisfy P
Count(tbl, P(_)) == Cardinality({ i \in DOMAIN tbl : P(tbl[i]) })

\* round(count / n * 100, 1), in tenths of a percent (ties go to even)
PctTenths(count, n) ==
    LET q == (1000 * count) \div n
        r == (1000 * count) % n
    IN  IF 2 * r > n THEN q + 1
        ELSE IF 2 * r < n THEN q
        ELSE IF q % 2 = 0 THEN q ELSE q + 1

\* ===========================================================================
\* The verifiers.  A row of the merged table carries the three columns the
\* ghost analysis reads: 'book name', 'id' and 'book id'.
\* ===========================================================================
HasName(r) == r.name # ""
VRow(name, id, bid) == [name |-> name, id |-> id, bid |-> bid]

VRows == { VRow(n, i, b) : n \in {"", "Alef"},
                           i \in {Null, Num(10), Num(99)},
                           b \in {Null, Num(10), Num(99)} }

InitVerify ==
    /\ IdleStat
    /\ IdleCols
    /\ IdlePeriod
    /\ IdleDates
    /\ IdleLoad
    /\ IdleApp
    /\ vdf \in (SeqsUpTo(VRows, MaxTable) \ {<<>>})
    /\ vcat \in { [loaded |-> FALSE, ids |-> {}], [loaded |-> TRUE, ids |-> {10}] }
    /\ v2res = NotRun
    /\ finres = NotRun
    /\ book_base = <<>>
    /\ diagres = NotRun

\* ghost_mask = ~all_book_refs.isin(cataloged_ids) over the non-null 'book id'
V2GhostMask(r, ids) == NotNa(r.bid) /\ ~(r.bid.k = "num" /\ r.bid.v \in ids)

\* StrashunVerifierV2.verify_ghost_records; identify_key_columns picks
\* 'book id' as the book-id column of a table that has it ('book' and 'id'
\* both match)
VerifyGhostRecords ==
    /\ vdf # <<>>
    /\ ~v2res.done
    /\ v2res' = IF vcat.loaded
                THEN LET ghost_count == Count(vdf, LAMBDA r : V2GhostMask(r, vcat.ids))
                     IN  [done |-> TRUE, recorded |-> TRUE,
                          ghost_count |-> ghost_count,
                          ghost_pct |-> PctTenths(ghost_count, Len(vdf))]
                ELSE [done |-> TRUE, recorded |-> FALSE,
                      ghost_count |-> 0, ghost_pct |-> 0]
    /\ UNCHANGED <<vdf, vcat, finres, book_base, diagres, varsDates, varsLoad, varsApp, varsStat, varsCols, varsPeriod>>

\* NameOnly without the ~has_id factor
NameOnly_NoIdTest(r, idcell) == HasName(r)

\* name_only = (has_name & ~has_id).sum()
NameOnly(r, idcell) == HasName(r) /\ ~NotNa(idcell)

\* the four presence counts over one identifier column, with the non-null
\* count of that column and the ghost percentage
PresenceCounts(tbl, IdOf(_)) ==
    LET name_only == Count(tbl, LAMBDA r : NameOnly(r, IdOf(r))) IN
    [done |-> TRUE,
     total |-> Len(tbl),
     non_null |-> Count(tbl, LAMBDA r : NotNa(IdOf(r))),
     both |-> Count(tbl, LAMBDA r : HasName(r) /\ NotNa(IdOf(r))),
     name_only |-> name_only,
     id_only |-> Count(tbl, LAMBDA r : ~HasName(r) /\ NotNa(IdOf(r))),
     neither |-> Count(tbl, LAMBDA r : ~HasName(r) /\ ~NotNa(IdOf(r))),
     ghost_pct |-> PctTenths(name_only, Len(tbl))]

\* aggregate_book_variations: None for a missing name, else the name without
\* a trailing volume or year
AggregateBookVariations(name) ==
    CASE name = "" -> ""
      [] name = "Alef 2" -> "Alef"
      [] OTHER -> name

\* StrashunFinalVerifier.verify_all: sections 3 and 4 count on the 'id'
\* column, section 6 stores the aggregated titles in self.df['book_base']
VerifyAll ==
    /\ vdf # <<>>
    /\ ~finres.done
    /\ finres' = PresenceCounts(vdf, LAMBDA r : r.id)
    /\ book_base' = [i \in DOMAIN vdf |-> AggregateBookVariations(vdf[i].name)]
    /\ UNCHANGED <<vdf, vcat, v2res, diagres, varsDates, varsLoad, varsApp, varsStat, varsCols, varsPeriod>>

\* book_diagnostic.analyze_books, on the 'book id' column
AnalyzeBooks ==
    /\ vdf # <<>>
    /\ ~diagres.done
    /\ diagres' = PresenceCounts(vdf, LAMBDA r : r.bid)
    /\ UNCHANGED <<vdf, vcat, v2res, finres, book_base, varsDates, varsLoad, varsApp, varsStat, varsCols, varsPeriod>>

NextVerify == VerifyGhostRecords \/ VerifyAll \/ AnalyzeBooks

SpecVerify == InitVerify /\ [][NextVerify]_vars

\* ---------------------------------------------------------------------------
\* the ghost condition of the data model: a book name is present and the
\* identifier is missing or is not an id of the catalog
GhostCondition(r, idcell, ids) ==
    HasName(r) /\ (~NotNa(idcell) \/ ~(idcell.k = "num" /\ idcell.v \in ids))

\* C1: a transaction is counted as a ghost record if and only if its book
\* name is present and its book id is null or not in the catalog's id set;
\* so the ghost count of each verifier is the number of such transactions.
C1_GhostIff ==
    vcat.loaded =>
        /\ (v2res.done /\ v2res.recorded) =>
              v2res.ghost_count =
                  Count(vdf, LAMBDA r : GhostCondition(r, r.bid, vcat.ids))
        /\ finres.done =>
              finres.name_only =
                  Count(vdf, LAMBDA r : GhostCondition(r, r.id, vcat.ids))

\* C2: every transaction is in exactly one of the classes matched (it has an
\* identifier), ghost (a name and no identifier) and orphan (neither): the
\* non-null identifier count, the name-only count and the neither count add
\* up to the number of transactions, in verify_all and in analyze_books.
C2_Partition ==
    /\ finres.done =>
          /\ finres.non_null + finres.name_only + finres.neither = Len(vdf)
          /\ finres.both + finres.id_only = finres.non_null
    /\ diagres.done =>
          /\ diagres.non_null + diagres.name_only + diagres.neither = Len(vdf)
          /\ diagres.both + diagres.id_only = diagres.non_null

\* both scripts have counted a table that has a row of each of the classes
C2_Witness ==
    /\ finres.done /\ diagres.done
    /\ finres.non_null > 0 /\ finres.name_only > 0 /\ finres.neither > 0
    /\ diagres.non_null > 0 /\ diagres.name_only > 0 /\ diagres.neither > 0

\* ===========================================================================
\* Loader and merger of the verifiers.  A row carries its record id
\* (' ID - record') and the rest of its cells as one payload.
\* ===========================================================================
LRow(rid, pay) == [rid |-> rid, pay |-> pay]
LRows == { LRow(Num(1), "p"), LRow(Num(1), "q"), LRow(Num(2), "p"), LRow(Null, "p") }

\* DataFrame.drop_duplicates keeping the last row of each key
DropDuplicatesBy_KeepLast(tbl, Key(_)) ==
    Pick(tbl, { i \in DOMAIN tbl :
                  \A j \in (i + 1)..Len(tbl) : Key(tbl[j]) # Key(tbl[i]) })

\* DataFrame.drop_duplicates(subset=...): the first row of each key stays, in
\* table order; missing keys count as equal to each other
DropDuplicatesBy(tbl, Key(_)) ==
    Pick(tbl, { i \in DOMAIN tbl : \A j \in 1..(i - 1) : Key(tbl[j]) # Key(tbl[i]) })

\* df.drop_duplicates(): whole rows
DropDuplicates(tbl) == DropDuplicatesBy(tbl, LAMBDA r : r)

\* the record-id pass keeping the last row of each id
RemoveDuplicateTransactions_KeepLast(tbl) ==
    DropDuplicatesBy_KeepLast(tbl, LAMBDA r : r.rid)

\* drop_duplicates(subset=[record_col]) on the concatenated table
RemoveDuplicateTransactions(tbl) == DropDuplicatesBy(tbl, LAMBDA r : r.rid)

InitLoad ==
    /\ IdleStat
    /\ IdleCols
    /\ IdlePeriod
    /\ IdleDates
    /\ IdleVerify
    /\ IdleApp
    /\ lwho \in {"v2", "final"}
    /\ lfiles \in FileSeqs(LRows, {"record-1902.csv"}, MaxFiles, MaxFileRows)
    /\ lidx = 1
    /\ ltables = <<>>
    /\ ldups = 0
    /\ ldf = <<>>
    /\ lidremoved = 0
    /\ lpc = "load"

\* one turn of the file loop whose read_csv succeeds: tag, drop the exact
\* duplicates of the file, append
LoadFile ==
    /\ lpc = "load"
    /\ lidx <= Len(lfiles)
    /\ lfiles[lidx].ok
    /\ LET df == DropDuplicates(lfiles[lidx].rows) IN
          /\ ltables' = Append(ltables, df)
          /\ ldups' = ldups + (Len(lfiles[lidx].rows) - Len(df))
    /\ lidx' = lidx + 1
    /\ UNCHANGED <<lwho, lfiles, ldf, lidremoved, lpc, varsDates, varsVerify, varsApp, varsStat, varsCols, varsPeriod>>

\* one turn whose read_csv raises: load_and_analyze_data logs and goes on,
\* load_data has no handler
LoadFileError ==
    /\ lpc = "load"
    /\ lidx <= Len(lfiles)
    /\ ~lfiles[lidx].ok
    /\ IF lwho = "v2"
       THEN lidx' = lidx + 1 /\ lpc' = lpc
       ELSE lidx' = lidx /\ lpc' = "crashed"
    /\ UNCHANGED <<lwho, lfiles, ltables, ldups, ldf, lidremoved, varsDates, varsVerify, varsApp, varsStat, varsCols, varsPeriod>>

\* identify_key_columns on the concatenated table: find_best_column divides
\* by len(df), so load_and_analyze_data raises ZeroDivisionError on a table
\* without rows (run() catches it and returns False); load_data has no such
\* step
IdentifyKeyColumnsRaises(who, all) == who = "v2" /\ all = <<>>

\* after the loop, with at least one table: concat, then the record-id pass
MergeTables ==
    /\ lpc = "load"
    /\ lidx > Len(lfiles)
    /\ ltables # <<>>
    /\ ~IdentifyKeyColumnsRaises(lwho, Concat(ltables))
    /\ LET all == Concat(ltables)
           kept == RemoveDuplicateTransactions(all)
       IN  /\ ldf' = kept
           /\ lidremoved' = Len(all) - Len(kept)
    /\ lpc' = "merged"
    /\ UNCHANGED <<lwho, lfiles, lidx, ltables, ldups, varsDates, varsVerify, varsApp, varsStat, varsCols, varsPeriod>>

\* after the loop, with tables that hold no row: identify_key_columns raises
MergeRaises ==
    /\ lpc = "load"
    /\ lidx > Len(lfiles)
    /\ ltables # <<>>
    /\ IdentifyKeyColumnsRaises(lwho, Concat(ltables))
    /\ lpc' = "crashed"
    /\ UNCHANGED <<lwho, lfiles, lidx, ltables, ldups, ldf, lidremoved, varsDates, varsVerify, varsApp, varsStat, varsCols, varsPeriod>>

\* after the loop, with no table: load_and_analyze_data returns False,
\* load_data's pd.concat([]) raises
LoadNothing ==
    /\ lpc = "load"
    /\ lidx > Len(lfiles)
    /\ ltables = <<>>
    /\ lpc' = IF lwho = "v2" THEN "aborted" ELSE "crashed"
    /\ UNCHANGED <<lwho, lfiles, lidx, ltables, ldups, ldf, lidremoved, varsDates, varsVerify, varsApp, varsStat, varsCols, varsPeriod>>

\* run(): the verification phases and the report come after a load that
\* returned True
RunVerifications ==
    /\ lpc = "merged"
    /\ lpc' = "reported"
    /\ UNCHANGED <<lwho, lfiles, lidx, ltables, ldups, ldf, lidremoved, varsDates, varsVerify, varsApp, varsStat, varsCols, varsPeriod>>

NextLoad ==
    LoadFile \/ LoadFileError \/ MergeTables \/ MergeRaises \/ LoadNothing \/ RunVerifications

SpecLoad == InitLoad /\ [][NextLoad]_vars

\* ---------------------------------------------------------------------------
\* the rows of the readable files, in source-iteration order
RawRows == Concat([i \in DOMAIN lfiles |-> lfiles[i].rows])

NoExactDuplicates(tbl) ==
    \A i, j \in DOMAIN tbl : i # j => tbl[i] # tbl[j]

ARow(tid, id, bid, name, person, date, f, yr, ret) ==
    [tid |-> tid, id |-> id, bid |-> bid, name |-> name, person |-> person,
     date |-> date, f |-> f, yr |-> yr, ret |-> ret]

Moshe == <<"M", " ", "L">>
MosheSpaced == <<" ", "M", " ", " ", "L">>
Sara == <<"S">>
NoPerson == <<>>

RowA == ARow(Num(1), Num(10), Null, "Alef", Moshe, D("/", 1, 2, 1902), "", Num(1902), NullDate)
RowB == ARow(Num(2), Null, Null, "Bet", Moshe, D("/", 3, 2, 1902), "", Num(1902), NullDate)
RowC == ARow(Num(3), Num(99), Null, "Gimel", Sara, D("/", 15, 13, 1902), "x", Num(1902), NullDate)
RowW == ARow(Num(4), Num(10), Null, "Alef", MosheSpaced, D("-", 1902, 2, 13), "", Num(1902), NullDate)
RowX == ARow(Num(5), Txt, Null, "Dalet", Moshe, NullDate, "", Num(1902), NullDate)
RowP == ARow(Num(6), Num(10), Num(99), "", Sara, D(".", 13, 1, 1902), "x", Num(1902), D(".", 12, 1, 1902))
RowQ == ARow(Num(7), Num(10), Txt, "Alef", NoPerson, JunkDate, "", Num(1902), NullDate)
RowN == ARow(Num(8), Null, Null, "", NoPerson, NullDate, "", Num(1700), NullDate)

\* rows at the edges of the identifier domain: a negative id, the id 0
RowS == ARow(Num(9), Num(-5), Null, "", Sara, D(".", 13, 2, 1902), "x", Num(1902), D(".", 14, 2, 1902))
RowZ == ARow(Num(11), Num(0), Null, "Zayin", Moshe, NullDate, "", Num(1902), D(".", 1, 1, 1902))

ARows == {RowA, RowB, RowC, RowW, RowX, RowP, RowQ, RowN}
ARowsFew == {RowA, RowC}
EdgeRows == {RowP, RowS, RowZ}

\* a file name: the '-'-separated parts of its stem, each a sequence of
\* '_'-separated tokens (a number or a text)
Name1902 == [stem |-> << <<Txt>>, <<Num(1902)>> >>]
NameVol == [stem |-> << <<Txt>>, <<Txt, Num(1), Num(1)>> >>]
Name1904 == [stem |-> << <<Txt>>, <<Num(1904)>> >>]
NameCopy == [stem |-> << <<Txt>>, <<Txt>> >>]
EdgeNames == {Name1902, Name1904, NameCopy}

\* the ways glob() can return up to n files of one row each, named from
\* Names and holding a row of Pool
OneRowFiles(Pool, Names, n) ==
    UNION { { [i \in 1..k |-> Readable(e[i][1], <<e[i][2]>>)] :
                e \in [1..k -> Names \X Pool] } : k \in 1..n }

\* year_part = f.stem.split('-')[-1].strip(), then split('_')[-1]
YearPart(name) ==
    LET last == name.stem[Len(name.stem)]
    IN  last[Len(last)]

\* pd.to_numeric(errors='coerce') of one cell
ToNumeric(c) == IF c.k = "num" THEN c ELSE Null

\* df['year'] = year_part
TagYear(file) ==
    [i \in DOMAIN file.rows |-> [file.rows[i] EXCEPT !.yr = YearPart(file.name)]]

\* Series.fillna(other), row by row
Fillna(col, other) ==
    [i \in DOMAIN col |-> IF NotNa(col[i]) THEN col[i] ELSE other[i]]

\* BookIdColumn with the two columns in the other order
BookIdColumn_IdFirst(tbl, cols) ==
    LET id  == [i \in DOMAIN tbl |-> tbl[i].id]
        bid == [i \in DOMAIN tbl |-> tbl[i].bid]
    IN  IF {"id", "book id"} \subseteq cols THEN Fillna(id, bid)
        ELSE IF "id" \in cols THEN id
        ELSE IF "book id" \in cols THEN bid
        ELSE [i \in DOMAIN tbl |-> Null]

\* the book_id column: 'book id' filled from 'id' when the table has both,
\* else the one it has
BookIdColumn(tbl, cols) ==
    LET id  == [i \in DOMAIN tbl |-> tbl[i].id]
        bid == [i \in DOMAIN tbl |-> tbl[i].bid]
    IN  IF {"id", "book id"} \subseteq cols THEN Fillna(bid, id)
        ELSE IF "id" \in cols THEN id
        ELSE IF "book id" \in cols THEN bid
        ELSE [i \in DOMAIN tbl |-> Null]

\* 'W' if str(x).strip().lower() in ['x', 'f', 'female'] else 'M'
GenderOf(x) == IF x \in {"x", "f", "female"} THEN "W" ELSE "M"

ReadableFiles(files) == SelectSeq(files, LAMBDA f : f.ok)

\* load_and_prepare_ledgers: the empty table when no file is found or read.
\* The files' return-date column stays in the table under its own header
\* ('return_raw'); rename_map gives no column the name 'return_date', so the
\* table has a 'return_date' column, which standardize_dates then rewrites,
\* only when that is the files' header.
LoadAndPrepareLedgers(files, cols, retcol) ==
    LET all_ledgers == ReadableFiles(files) IN
    IF files = <<>> \/ all_ledgers = <<>> THEN <<>>
    ELSE LET all == Concat([i \in DOMAIN all_ledgers |-> TagYear(all_ledgers[i])])
             book_id == BookIdColumn(all, cols)
             date == StandardizeColumn([i \in DOMAIN all |-> all[i].date])
             return_date == StandardizeColumn([i \in DOMAIN all |-> all[i].ret])
         IN  [i \in DOMAIN all |->
                 [transaction_id |-> all[i].tid,
                  book_id |-> book_id[i],
                  book_name |-> all[i].name,
                  borrower_name |-> all[i].person,
                  date |-> date[i],
                  return_date |-> IF retcol = "return_date" THEN return_date[i]
                                  ELSE NullDate,
                  return_raw |-> IF retcol = "return_date" THEN NullDate
                                 ELSE all[i].ret,
                  year |-> ToNumeric(all[i].yr),
                  gender |-> GenderOf(all[i].f)]]

\* DataFrame.empty
Empty_Never(df) == FALSE

Empty(df) == Len(df) = 0

\* load_master_book_catalog: the empty table when the file is missing or
\* unreadable, else its rows with book_id made numeric
LoadMasterBookCatalog(file) ==
    IF ~file.found \/ ~file.ok THEN <<>>
    ELSE [i \in DOMAIN file.rows |->
             [book_id |-> ToNumeric(file.rows[i].book_id),
              title |-> file.rows[i].title]]


\* ---- create_borrowers_list
\* Python truth of a cell that holds None or an int
Truthy(c) == c.k = "num" /\ c.v # 0

\* int(x) raises ValueError on a text that is no number
IntRaises(c) == c.k = "str"

\* comparison of two 'YYYY-MM-DD' strings
DateLess(x, y) ==
    \/ x.a < y.a
    \/ x.a = y.a /\ x.b < y.b
    \/ x.a = y.a /\ x.b = y.b /\ x.c < y.c

\* Round2 that cuts the digits after the second decimal
Round2_Floor(p, q) == (100 * p) \div q

\* round(p / q, 2) in hundredths, q > 0 (ties go to even)
Round2(p, q) ==
    LET n == (100 * p) \div q
        r == (100 * p) % q
    IN  IF 2 * r > q THEN n + 1
        ELSE IF 2 * r < q THEN n
        ELSE IF n % 2 = 0 THEN n ELSE n + 1

\* favorite_months[month] = favorite_months.get(month, 0) + 1, the dict kept
\* as its items in insertion order
CountMonth(fm, month) ==
    IF \E k \in DOMAIN fm : fm[k].month = month
    THEN [k \in DOMAIN fm |->
             IF fm[k].month = month THEN [fm[k] EXCEPT !.n = @ + 1] ELSE fm[k]]
    ELSE Append(fm, [month |-> month, n |-> 1])

\* MostActiveMonth that takes the lowest month number among the largest counts
MostActiveMonth_Lowest(fm) ==
    IF fm = <<>> THEN 0
    ELSE LET top == Max({ fm[k].n : k \in DOMAIN fm })
         IN  Min({ fm[k].month : k \in { j \in DOMAIN fm : fm[j].n = top } })

\* max(items, key=count)[0]: the first item, in insertion order, whose count
\* is the largest; 0 stands for None
MostActiveMonth(fm) ==
    IF fm = <<>> THEN 0
    ELSE LET top == Max({ fm[k].n : k \in DOMAIN fm })
         IN  fm[Min({ k \in DOMAIN fm : fm[k].n = top })].month

\* the profile a borrower gets at the first transaction
NewBorrower(t) ==
    [borrower_name |-> t.borrower_name,
     gender |-> t.gender,
     first_seen |-> t.date,
     last_seen |-> t.date,
     transactions |-> <<>>,
     unique_books |-> {},
     years_active |-> {},
     favorite_months |-> <<>>]

\* AddTransaction that lists a transaction id once per profile
AddTransaction_OncePerId(b, t) ==
    IF \E x \in DOMAIN b.transactions :
           b.transactions[x].transaction_id = t.transaction_id
    THEN b
    ELSE [b EXCEPT
            !.transactions = Append(@, [transaction_id |-> t.transaction_id,
                                        book_id |-> t.book_id,
                                        book_name |-> t.book_name,
                                        date |-> t.date,
                                        year |-> t.year]),
            !.unique_books = IF Truthy(t.book_id) THEN @ \cup {t.book_id.v} ELSE @,
            !.years_active = IF Truthy(t.year) THEN @ \cup {t.year.v} ELSE @,
            !.favorite_months = IF t.date # NullDate THEN CountMonth(@, t.date.b) ELSE @]

\* one turn of the iterrows loop for a transaction with a borrower
AddTransaction(b, t) ==
    LET trans_data == [transaction_id |-> t.transaction_id,
                       book_id |-> t.book_id,
                       book_name |-> t.book_name,
                       date |-> t.date,
                       return_date |-> t.return_date,
                       year |-> t.year]
    IN  [b EXCEPT
            !.gender = IF @ = "Unknown" /\ t.gender # "Unknown" THEN t.gender ELSE @,
            !.transactions = Append(@, trans_data),
            !.unique_books = IF Truthy(t.book_id) THEN @ \cup {t.book_id.v} ELSE @,
            !.years_active = IF Truthy(t.year) THEN @ \cup {t.year.v} ELSE @,
            !.favorite_months = IF t.date # NullDate THEN CountMonth(@, t.date.b) ELSE @,
            !.first_seen = IF t.date # NullDate /\ (@ = NullDate \/ DateLess(t.date, @))
                           THEN t.date ELSE @,
            !.last_seen = IF t.date # NullDate /\ (@ = NullDate \/ DateLess(@, t.date))
                          THEN t.date ELSE @]

\* borrowers_dict after the rows i.. of the table, as its values in
\* insertion order; the key is the raw borrower_name
RECURSIVE BorrowersDict(_, _, _)
BorrowersDict(tbl, i, dict) ==
    IF i > Len(tbl) THEN dict
    ELSE LET t == tbl[i] IN
         IF t.borrower_name = NoPerson THEN BorrowersDict(tbl, i + 1, dict)
         ELSE LET known == { k \in DOMAIN dict :
                               dict[k].borrower_name = t.borrower_name }
                  d1 == IF known = {} THEN Append(dict, NewBorrower(t)) ELSE dict
                  at == CHOOSE k \in DOMAIN d1 :
                           d1[k].borrower_name = t.borrower_name
              IN  BorrowersDict(tbl, i + 1,
                                [d1 EXCEPT ![at] = AddTransaction(@, t)])

\* the derived metrics of one profile
FinishBorrower(b) ==
    [borrower_name |-> b.borrower_name,
     gender |-> b.gender,
     first_seen |-> b.first_seen,
     last_seen |-> b.last_seen,
     transactions |-> b.transactions,
     unique_books |-> b.unique_books,
     years_active |-> b.years_active,
     total_transactions |-> Len(b.transactions),
     unique_book_count |-> Cardinality(b.unique_books),
     reading_velocity |->
         IF b.years_active # {}
         THEN Round2(Len(b.transactions),
                     Max(b.years_active) - Min(b.years_active) + 1)
         ELSE 0,
     most_active_month |-> MostActiveMonth(b.favorite_months)]

\* list.sort(key=..., reverse=True): descending, equal keys keep their order
SortDesc(list, Key(_)) ==
    LET rank(i) == Cardinality({ j \in DOMAIN list : Key(list[j]) > Key(list[i]) })
                   + Cardinality({ j \in 1..(i - 1) : Key(list[j]) = Key(list[i]) })
                   + 1
    IN  [r \in DOMAIN list |-> list[CHOOSE i \in DOMAIN list : rank(i) = r]]

\* what makes create_borrowers_list raise: int() of a non-numeric book_id in
\* a row with a borrower, or the division by len(borrowers_list) when the
\* list is empty
CreateBorrowersRaises(tbl) ==
    \/ \E i \in DOMAIN tbl :
          tbl[i].borrower_name # NoPerson /\ IntRaises(tbl[i].book_id)
    \/ \A i \in DOMAIN tbl : tbl[i].borrower_name = NoPerson

CreateBorrowersList(tbl) ==
    LET dict == BorrowersDict(tbl, 1, <<>>)
        borrowers_list == [k \in DOMAIN dict |-> FinishBorrower(dict[k])]
    IN  SortDesc(borrowers_list, LAMBDA b : b.total_transactions)


\* ---- enhance_books_with_transactions
Title(s) == [t |-> s, n |-> 0]
UnknownBook(id) == [t |-> "Unknown Book #", n |-> id]
NoTitle == Title("")

\* book_transactions and book_borrowers after the rows i.. of the table, as
\* one dict keyed by int(book_id), its items in insertion order
RECURSIVE BookTransactions(_, _, _)
BookTransactions(tbl, i, dict) ==
    IF i > Len(tbl) THEN dict
    ELSE LET t == tbl[i] IN
         IF ~NotNa(t.book_id) THEN BookTransactions(tbl, i + 1, dict)
         ELSE LET id == t.book_id.v
                  d1 == IF \E k \in DOMAIN dict : dict[k].id = id THEN dict
                        ELSE Append(dict, [id |-> id, transactions |-> <<>>,
                                           borrowers |-> {}])
                  at == CHOOSE k \in DOMAIN d1 : d1[k].id = id
                  trans_data == [transaction_id |-> t.transaction_id,
                                 borrower_name |-> t.borrower_name,
                                 date |-> t.date,
                                 return_date |-> t.return_date,
                                 year |-> t.year,
                                 gender |-> t.gender]
              IN  BookTransactions(tbl, i + 1,
                     [d1 EXCEPT ![at] =
                         [@ EXCEPT
                             !.transactions = Append(@, trans_data),
                             !.borrowers = IF t.borrower_name # NoPerson
                                           THEN @ \cup {t.borrower_name} ELSE @]])

\* book_transactions.get(book_id, []) and book_borrowers.get(book_id, set())
TransactionsOf(dict, id) ==
    IF \E k \in DOMAIN dict : dict[k].id = id
    THEN dict[CHOOSE k \in DOMAIN dict : dict[k].id = id]
    ELSE [id |-> id, transactions |-> <<>>, borrowers |-> {}]

\* the profile of one catalog row: linked to its transactions when
\* book_id is truthy and not NaN, bare otherwise
CatalogBook(book, dict) ==
    IF Truthy(book.book_id)
    THEN LET e == TransactionsOf(dict, book.book_id.v) IN
         [book_id |-> book.book_id, title |-> book.title, is_ghost |-> FALSE,
          transactions |-> e.transactions,
          transaction_count |-> Len(e.transactions),
          unique_borrowers |-> e.borrowers]
    ELSE [book_id |-> book.book_id, title |-> book.title, is_ghost |-> FALSE,
          transactions |-> <<>>, transaction_count |-> 0, unique_borrowers |-> {}]

CatalogedIds(cat) ==
    { cat[k].book_id.v : k \in { j \in DOMAIN cat : Truthy(cat[j].book_id) } }

\* ghost_ids = set(book_transactions.keys()) - cataloged_ids
GhostIds(cat, dict) == { dict[k].id : k \in DOMAIN dict } \ CatalogedIds(cat)

\* the first non-empty book_name among the rows with this book_id
GhostTitle(tbl, id) ==
    LET named == { i \in DOMAIN tbl : tbl[i].book_id = Num(id) /\ tbl[i].book_name # "" }
    IN  IF named = {} THEN UnknownBook(id) ELSE Title(tbl[Min(named)].book_name)

GhostBook(tbl, dict, id) ==
    LET e == TransactionsOf(dict, id) IN
    [book_id |-> Num(id), title |-> GhostTitle(tbl, id), is_ghost |-> TRUE,
     transactions |-> e.transactions,
     transaction_count |-> Len(e.transactions),
     unique_borrowers |-> e.borrowers]

\* the orders in which a set can be iterated
Orders(S) ==
    { o \in [1..Cardinality(S) -> S] : \A i, j \in DOMAIN o : i # j => o[i] # o[j] }

\* int(book_id) of a non-null, non-numeric book_id
EnhanceBooksRaises(tbl) ==
    \E i \in DOMAIN tbl : NotNa(tbl[i].book_id) /\ IntRaises(tbl[i].book_id)

\* enhance_books_with_transactions, the ghost ids iterated in the order given
\* the ghost profiles appended before the catalog entries
EnhanceBooksWithTransactions_GhostsFirst(cat, tbl, ghost_order) ==
    LET dict == BookTransactions(tbl, 1, <<>>)
        enhanced_books ==
            [k \in DOMAIN ghost_order |-> GhostBook(tbl, dict, ghost_order[k])] \o
            [k \in DOMAIN cat |-> CatalogBook(cat[k], dict)]
    IN  SortDesc(enhanced_books, LAMBDA b : b.transaction_count)

EnhanceBooksWithTransactions(cat, tbl, ghost_order) ==
    LET dict == BookTransactions(tbl, 1, <<>>)
        enhanced_books ==
            [k \in DOMAIN cat |-> CatalogBook(cat[k], dict)] \o
            [k \in DOMAIN ghost_order |-> GhostBook(tbl, dict, ghost_order[k])]
    IN  SortDesc(enhanced_books, LAMBDA b : b.transaction_count)


\* ---- create_aggregated_data
\* Series.nunique(): the distinct values that are not missing
Distinct(tbl, Val(_), Present(_)) ==
    { Val(tbl[i]) : i \in { j \in DOMAIN tbl : Present(tbl[j]) } }

\* the elements of a finite set of integers in ascending order
Ascending(S) ==
    [r \in 1..Cardinality(S) |->
        CHOOSE x \in S : Cardinality({ y \in S : y < x }) = r - 1]

\* WithYear that keeps the rows with a date
WithYear_Dated(tbl) == SelectSeq(tbl, LAMBDA t : t.date # NullDate)

\* dropna(subset=['year'])
WithYear(tbl) == SelectSeq(tbl, LAMBDA t : NotNa(t.year))

HasBorrower(t) == t.borrower_name # NoPerson
HasBook(t) == NotNa(t.book_id)

\* the group sizes and distinct counts of one group of rows
GroupStats(rows) ==
    [total_transactions |-> Len(rows),
     men_transactions |-> Count(rows, LAMBDA t : t.gender = "M"),
     women_transactions |-> Count(rows, LAMBDA t : t.gender = "W"),
     unique_borrowers |->
         Cardinality(Distinct(rows, LAMBDA t : t.borrower_name, HasBorrower)),
     unique_books |-> Cardinality(Distinct(rows, LAMBDA t : t.book_id, HasBook))]

\* the named aggregations and ledgers['date'] raise KeyError when the table
\* has no 'borrower_name', 'book_id' or 'date' column
CreateAggregatedDataRaises(columns) ==
    ~({"borrower_name", "book_id", "date"} \subseteq columns)

CreateAggregatedData(tbl) ==
    LET rows == WithYear(tbl)
        years == Ascending({ rows[i].year.v : i \in DOMAIN rows })
        genders == { rows[i].gender : i \in DOMAIN rows }
        months == Ascending({ rows[i].date.b :
                                i \in { j \in DOMAIN rows : rows[j].date # NullDate } })
        dated == SelectSeq(rows, LAMBDA t : t.date # NullDate)
        nb == Cardinality(Distinct(rows, LAMBDA t : t.borrower_name, HasBorrower))
        nk == Cardinality(Distinct(rows, LAMBDA t : t.book_id, HasBook))
    IN  [by_year |->
            [k \in DOMAIN years |->
                [year |-> years[k],
                 stats |-> GroupStats(SelectSeq(rows, LAMBDA t : t.year.v = years[k]))]],
         by_gender |->
            [g \in genders |->
                GroupStats(SelectSeq(rows, LAMBDA t : t.gender = g))],
         by_month |->
            [k \in DOMAIN months |->
                [month |-> months[k],
                 total_transactions |-> Count(dated, LAMBDA t : t.date.b = months[k])]],
         summary |->
            [total_transactions |-> Len(rows),
             total_borrowers |-> nb,
             total_books |-> nk,
             date_start |->
                 IF dated = <<>> THEN NullDate
                 ELSE CHOOSE d \in { dated[i].date : i \in DOMAIN dated } :
                         \A i \in DOMAIN dated : ~DateLess(dated[i].date, d),
             date_end |->
                 IF dated = <<>> THEN NullDate
                 ELSE CHOOSE d \in { dated[i].date : i \in DOMAIN dated } :
                         \A i \in DOMAIN dated : ~DateLess(d, dated[i].date),
             avg_transactions_per_borrower |->
                 IF nb > 0 THEN Round2(Len(rows), nb) ELSE 0,
             avg_transactions_per_book |->
                 IF nk > 0 THEN Round2(Len(rows), nk) ELSE 0]]

\* ---- create_network_data
\* the configured periods after 'all', as (start_year, end_year)
Periods == << <<1902, 1902>>, <<1903, 1904>>, <<1934, 1934>>, <<1940, 1940>> >>

\* Unique that keeps every occurrence
Unique_KeepAll(col) == col

\* Series.unique(): the distinct values in order of first appearance
Unique(col) ==
    Pick(col, { i \in DOMAIN col : \A j \in 1..(i - 1) : col[j] # col[i] })

\* Series.mode()[0] of the gender column: the most frequent value, the
\* smallest one on a tie
GenderMode(rows) ==
    IF Count(rows, LAMBDA t : t.gender = "M") >= Count(rows, LAMBDA t : t.gender = "W")
    THEN "M" ELSE "W"

\* the graph of one period
PeriodGraph(rows) ==
    LET withBook == SelectSeq(rows, HasBook)
        withBorrower == SelectSeq(rows, HasBorrower)
        linked == SelectSeq(rows, LAMBDA t : HasBorrower(t) /\ HasBook(t))
        book_nodes == Unique([i \in DOMAIN withBook |-> withBook[i].book_id.v])
        borrower_nodes ==
            Unique([i \in DOMAIN withBorrower |-> withBorrower[i].borrower_name])
        edge_keys == Unique([i \in DOMAIN linked |->
                                <<linked[i].borrower_name, linked[i].book_id.v>>])
    IN  [book_nodes |->
            [k \in DOMAIN book_nodes |->
                [id |-> book_nodes[k],
                 value |-> Count(rows, LAMBDA t : t.book_id = Num(book_nodes[k]))]],
         borrower_nodes |->
            [k \in DOMAIN borrower_nodes |->
                [label |-> borrower_nodes[k],
                 gender |-> GenderMode(SelectSeq(rows,
                               LAMBDA t : t.borrower_name = borrower_nodes[k])),
                 value |-> Count(rows, LAMBDA t : t.borrower_name = borrower_nodes[k])]],
         edges |->
            [k \in DOMAIN edge_keys |->
                [from |-> edge_keys[k][1], to |-> edge_keys[k][2],
                 value |-> Count(linked, LAMBDA t :
                              <<t.borrower_name, t.book_id.v>> = edge_keys[k])]],
         total_nodes |-> Len(book_nodes) + Len(borrower_nodes),
         total_edges |-> Len(edge_keys)]

\* the rows of the years start_year..end_year
InPeriod(rows, p) == SelectSeq(rows, LAMBDA t : t.year.v >= p[1] /\ t.year.v <= p[2])

\* create_network_data: a graph for 'all' and for each configured period
\* that has a transaction; position 1 is 'all'
CreateNetworkData(tbl) ==
    LET rows == WithYear(tbl)
        all == IF rows = <<>> THEN <<>> ELSE <<[period |-> 0, graph |-> PeriodGraph(rows)]>>
        named == [k \in DOMAIN Periods |->
                     [period |-> k, graph |-> PeriodGraph(InPeriod(rows, Periods[k]))]]
    IN  all \o SelectSeq(named, LAMBDA g :
                   InPeriod(rows, Periods[g.period]) # <<>>)


\* ---- validate_and_report_data_quality
\* max(books, key=transaction_count): the first of the largest; the list is
\* not empty
MostPopular(list) ==
    LET top == Max({ list[k].transaction_count : k \in DOMAIN list })
    IN  list[Min({ k \in DOMAIN list : list[k].transaction_count = top })]

\* the date-consistency test with the two dates swapped
ReturnedBeforeBorrowed_Swapped(t) ==
    /\ t.date # NullDate
    /\ t.return_date # NullDate
    /\ DateLess(t.date, t.return_date)

expected_columns == <<"date", "return_date", "book_id", "borrower_name">>

\* the test of the date-consistency loop: both cells present and the return
\* date before the borrow date
ReturnedBeforeBorrowed(t) ==
    /\ t.date # NullDate
    /\ t.return_date # NullDate
    /\ DateLess(t.return_date, t.date)

ValidateAndReportDataQuality(tbl, columns, cat, blist, klist) ==
    LET total == Len(tbl)
        has_return_date == "return_date" \in columns
        missing_columns == SelectSeq(expected_columns, LAMBDA c : c \notin columns)
        with_returns == IF has_return_date
                        THEN Count(tbl, LAMBDA t : t.return_date # NullDate)
                        ELSE 0
        date_issues == IF has_return_date THEN Count(tbl, ReturnedBeforeBorrowed)
                       ELSE 0
        with_books == Count(tbl, HasBook)
        catalog_ids == { cat[k].book_id.v : k \in { j \in DOMAIN cat : NotNa(cat[j].book_id) } }
        transaction_book_ids == { tbl[i].book_id.v : i \in { j \in DOMAIN tbl : HasBook(tbl[j]) } }
        ghost_ids == transaction_book_ids \ catalog_ids
        female == Count(blist, LAMBDA b : b.gender = "W")
        never == Count(klist, LAMBDA b : b.transaction_count = 0)
    IN  [transactions |->
            [total |-> total,
             with_dates |-> Count(tbl, LAMBDA t : t.date # NullDate),
             with_returns |-> with_returns,
             with_books |-> with_books,
             with_borrowers |-> Count(tbl, HasBorrower),
             completeness_rate |->
                 IF total > 0 THEN Round2(with_books * 100, total) ELSE 0],
         missing_columns |-> missing_columns,
         ghost_issue |-> [recorded |-> ghost_ids # {}, count |-> Cardinality(ghost_ids)],
         date_issues |-> date_issues,
         borrowers |->
            [total |-> Len(blist),
             single_book_borrowers |-> Count(blist, LAMBDA b : b.unique_book_count = 1),
             power_users |-> Count(blist, LAMBDA b : b.total_transactions >= 20),
             super_users |-> Count(blist, LAMBDA b : b.total_transactions >= 50),
             female |-> female,
             male |-> Count(blist, LAMBDA b : b.gender = "M"),
             unknown |-> Count(blist, LAMBDA b : b.gender \notin {"W", "M"}),
             female_percentage |->
                 IF blist # <<>> THEN Round2(female * 100, Len(blist)) ELSE 0],
         books |->
            [total_cataloged |-> Len(cat),
             total_with_transactions |-> Len(klist),
             ghost_records |-> Count(klist, LAMBDA b : b.is_ghost),
             never_borrowed |-> never,
             utilization_rate |->
                 IF klist # <<>> THEN Round2((Len(klist) - never) * 100, Len(klist)) ELSE 0,
             most_popular_title |->
                 IF klist # <<>> THEN MostPopular(klist).title ELSE NoTitle,
             most_popular_transactions |->
                 IF klist # <<>> THEN MostPopular(klist).transaction_count ELSE 0],
         warnings |->
            (IF missing_columns = <<>> THEN <<>> ELSE <<"missing_columns">>)
            \o (IF date_issues > 0 THEN <<"date_inconsistency">> ELSE <<>>)
            \o (IF ~has_return_date THEN <<"no_return_dates">>
                ELSE IF with_returns * 10 < total THEN <<"missing_return_dates">>
                ELSE <<>>)]

\* ---- prepare_clean_data.create_clean_library_json
\* the script returns early: no ledger file, a read_csv that raises inside
\* one of the two try blocks
CleanAborts(files, catfile) ==
    \/ files = <<>>
    \/ \E i \in DOMAIN files : ~files[i].ok
    \/ catfile.found /\ ~catfile.ok

\* .str on a '<F>' column that holds no text raises
CleanRaises(files) ==
    LET all == Concat([i \in DOMAIN files |-> files[i].rows])
    IN  all # <<>> /\ \A i \in DOMAIN all : all[i].f = ""

\* str.strip().map({'x': 'W', 'X': 'W'}).fillna('M')
CleanGender(x) == IF x \in {"x", "X"} THEN "W" ELSE "M"

\* the year filter: numeric, 1800 <= year < 2025
ValidYear(c) == c.k = "num" /\ c.v >= 1800 /\ c.v < 2025

\* pd.merge(ledgers, catalog, on='book_id', how='left'): each ledger row once
\* per catalog row with an equal key (missing keys match each other), or once
\* without a match
RECURSIVE MergeLeft(_, _, _)
MergeLeft(rows, cat, i) ==
    IF i > Len(rows) THEN <<>>
    ELSE LET hits == SelectSeq(cat, LAMBDA c : c.book_id = rows[i].book_id)
             out == IF hits = <<>> THEN << [rows[i] EXCEPT !.title = NoTitle] >>
                    ELSE [k \in DOMAIN hits |-> [rows[i] EXCEPT !.title = hits[k].title]]
         IN  out \o MergeLeft(rows, cat, i + 1)

\* the 'transactions' list the script writes
CleanTransactions(files, cols, catfile) ==
    LET all == Concat([i \in DOMAIN files |-> files[i].rows])
        book_id == BookIdColumn(all, cols)
        ledgers_df == [i \in DOMAIN all |->
                          [transaction_id |-> all[i].tid,
                           book_id |-> book_id[i],
                           borrower_name |-> all[i].person,
                           year |-> ToNumeric(all[i].yr),
                           gender |-> CleanGender(all[i].f),
                           title |-> NoTitle]]
        kept == SelectSeq(ledgers_df, LAMBDA t : ValidYear(t.year))
        catalog_df == IF catfile.found THEN catfile.rows ELSE <<>>
    IN  IF catalog_df # <<>>
        THEN MergeLeft([i \in DOMAIN kept |->
                           [kept[i] EXCEPT !.book_id = ToNumeric(@)]],
                       [k \in DOMAIN catalog_df |->
                           [catalog_df[k] EXCEPT !.book_id = ToNumeric(@)]],
                       1)
        ELSE kept


\* ---- create_data_for_app and create_clean_library_json, one stage per step
NoCatalog == [found |-> FALSE, ok |-> FALSE, rows |-> <<>>]
BadCatalog == [found |-> TRUE, ok |-> FALSE, rows |-> <<>>]
Catalog(rows) == [found |-> TRUE, ok |-> TRUE, rows |-> rows]
Book10 == [book_id |-> Num(10), title |-> Title("Alef")]
Book0 == [book_id |-> Num(0), title |-> Title("Zayin")]
Book10Again == [book_id |-> Num(10), title |-> Title("Alef, second copy")]
BookNoId == [book_id |-> Null, title |-> Title("Bet")]

BothCols == {"id", "book id"}

\* the headers of the borrower and date columns of the ledger files
Mandatory == {"person's name", "date"}

\* the columns of the prepared table among those the stages look up by name:
\* 'book_id' made from 'id' / 'book id', 'borrower_name' renamed from
\* "person's name", 'date', and 'return_date' only under that very header
Columns(ids, heads, retcol) ==
    (IF ids # {} THEN {"book_id"} ELSE {})
    \cup (IF "person's name" \in heads THEN {"borrower_name"} ELSE {})
    \cup (IF "date" \in heads THEN {"date"} ELSE {})
    \cup (IF retcol = "return_date" THEN {"return_date"} ELSE {})

\* a row of a file that lacks some of the columns: it has no cell for them
Lacking(row, ids, heads) ==
    [row EXCEPT !.id = IF "id" \in ids THEN @ ELSE Null,
                !.bid = IF "book id" \in ids THEN @ ELSE Null,
                !.person = IF "person's name" \in heads THEN @ ELSE NoPerson,
                !.date = IF "date" \in heads THEN @ ELSE NullDate]

\* one-row files of a directory whose files lack at least one of the columns
DegradedFiles(ids, heads) ==
    { [k \in DOMAIN fs |->
          [fs[k] EXCEPT !.rows = [j \in DOMAIN @ |-> Lacking(@[j], ids, heads)]]] :
        fs \in OneRowFiles({RowA, RowP}, {Name1902}, MaxLedger) }

\* the header of the return-date column: 'return date' in the ledger files
\* (the name the verifier reads it by), 'return_date' the name the pipeline
\* looks for
ReturnHeaders == {"return date", "return_date"}

InitApp ==
    /\ IdleStat
    /\ IdleCols
    /\ IdlePeriod
    /\ IdleDates
    /\ IdleVerify
    /\ IdleLoad
    /\ awho \in {"app", "clean"}
    /\ \/ /\ adir = TRUE
          /\ afiles \in { <<Readable(Name1902, t)>> : t \in SeqsUpTo(ARows, MaxLedger) }
          /\ \/ acols = BothCols /\ acatfile \in {NoCatalog, Catalog(<<Book10>>)}
             \/ acols \in {{"id"}, {"book id"}} /\ acatfile = Catalog(<<Book10>>)
          /\ aheads = Mandatory
          /\ aretcol = "return date"
       \/ /\ adir = TRUE
          /\ afiles \in FileSeqs(ARowsFew, {Name1902, NameVol}, MaxFiles, MaxFileRows)
          /\ acols = BothCols
          /\ aheads = Mandatory
          /\ aretcol = "return date"
          /\ acatfile \in {BadCatalog, Catalog(<<Book10, BookNoId>>),
                          Catalog(<<Book10, Book10Again>>)}
       \/ /\ adir = TRUE
          /\ afiles \in OneRowFiles(EdgeRows, EdgeNames, MaxLedger)
          /\ acols = BothCols
          /\ aheads = Mandatory
          /\ aretcol \in ReturnHeaders
          /\ acatfile = Catalog(<<Book10, Book0>>)
       \/ /\ awho = "app"
          /\ adir = TRUE
          /\ acols \in SUBSET BothCols
          /\ aheads \in SUBSET Mandatory
          /\ acols = {} \/ aheads # Mandatory
          /\ afiles \in DegradedFiles(acols, aheads)
          /\ aretcol = "return date"
          /\ acatfile = Catalog(<<Book10>>)
       \/ /\ adir = FALSE
          /\ afiles = <<>>
          /\ acols = BothCols
          /\ aheads = Mandatory
          /\ aretcol = "return date"
          /\ acatfile = NoCatalog
    /\ ledgers = <<>>
    /\ catalog = <<>>
    /\ borrowers = None
    /\ books = None
    /\ aggregated = None
    /\ network = None
    /\ quality = None
    /\ written = {}
    /\ clean = None
    /\ apc = "start"

\* if not data_path.exists(): return
AppNoDataDir ==
    /\ awho = "app" /\ apc = "start"
    /\ ~adir
    /\ apc' = "aborted"
    /\ UNCHANGED <<awho, adir, afiles, acols, aheads, aretcol, acatfile, ledgers, catalog, borrowers,
                   books, aggregated, network, quality, written, clean,
                   varsDates, varsVerify, varsLoad, varsStat, varsCols, varsPeriod>>

\* ledgers = load_and_prepare_ledgers(data_path), not empty
AppLoadLedgers ==
    /\ awho = "app" /\ apc = "start"
    /\ adir
    /\ ~Empty(LoadAndPrepareLedgers(afiles, acols, aretcol))
    /\ ledgers' = LoadAndPrepareLedgers(afiles, acols, aretcol)
    /\ apc' = "ledgers"
    /\ UNCHANGED <<awho, adir, afiles, acols, aheads, aretcol, acatfile, catalog, borrowers,
                   books, aggregated, network, quality, written, clean,
                   varsDates, varsVerify, varsLoad, varsStat, varsCols, varsPeriod>>

\* if ledgers.empty: return
AppNoLedgers ==
    /\ awho = "app" /\ apc = "start"
    /\ adir
    /\ Empty(LoadAndPrepareLedgers(afiles, acols, aretcol))
    /\ apc' = "aborted"
    /\ UNCHANGED <<awho, adir, afiles, acols, aheads, aretcol, acatfile, ledgers, catalog, borrowers,
                   books, aggregated, network, quality, written, clean,
                   varsDates, varsVerify, varsLoad, varsStat, varsCols, varsPeriod>>

\* catalog = load_master_book_catalog(data_path)
AppLoadCatalog ==
    /\ awho = "app" /\ apc = "ledgers"
    /\ catalog' = LoadMasterBookCatalog(acatfile)
    /\ apc' = "catalog"
    /\ UNCHANGED <<awho, adir, afiles, acols, aheads, aretcol, acatfile, ledgers, borrowers,
                   books, aggregated, network, quality, written, clean,
                   varsDates, varsVerify, varsLoad, varsStat, varsCols, varsPeriod>>

\* borrowers = create_borrowers_list(ledgers.copy(), catalog.copy())
AppCreateBorrowers ==
    /\ awho = "app" /\ apc = "catalog"
    /\ ~CreateBorrowersRaises(ledgers)
    /\ borrowers' = CreateBorrowersList(ledgers)
    /\ apc' = "borrowers"
    /\ UNCHANGED <<awho, adir, afiles, acols, aheads, aretcol, acatfile, ledgers, catalog,
                   books, aggregated, network, quality, written, clean,
                   varsDates, varsVerify, varsLoad, varsStat, varsCols, varsPeriod>>

\* create_borrowers_list raises; nothing catches it before the script ends
AppCreateBorrowersRaises ==
    /\ awho = "app" /\ apc = "catalog"
    /\ CreateBorrowersRaises(ledgers)
    /\ apc' = "crashed"
    /\ UNCHANGED <<awho, adir, afiles, acols, aheads, aretcol, acatfile, ledgers, catalog, borrowers,
                   books, aggregated, network, quality, written, clean,
                   varsDates, varsVerify, varsLoad, varsStat, varsCols, varsPeriod>>

\* books = enhance_books_with_transactions(catalog.copy(), ledgers.copy())
AppEnhanceBooks ==
    /\ awho = "app" /\ apc = "borrowers"
    /\ ~EnhanceBooksRaises(ledgers)
    /\ \E ghost_order \in Orders(GhostIds(catalog, BookTransactions(ledgers, 1, <<>>))) :
          books' = EnhanceBooksWithTransactions(catalog, ledgers, ghost_order)
    /\ apc' = "books"
    /\ UNCHANGED <<awho, adir, afiles, acols, aheads, aretcol, acatfile, ledgers, catalog, borrowers,
                   aggregated, network, quality, written, clean,
                   varsDates, varsVerify, varsLoad, varsStat, varsCols, varsPeriod>>

AppEnhanceBooksRaises ==
    /\ awho = "app" /\ apc = "borrowers"
    /\ EnhanceBooksRaises(ledgers)
    /\ apc' = "crashed"
    /\ UNCHANGED <<awho, adir, afiles, acols, aheads, aretcol, acatfile, ledgers, catalog, borrowers,
                   books, aggregated, network, quality, written, clean,
                   varsDates, varsVerify, varsLoad, varsStat, varsCols, varsPeriod>>

\* aggregated_data = create_aggregated_data(ledgers.copy(), catalog.copy())
AppAggregate ==
    /\ awho = "app" /\ apc = "books"
    /\ ~CreateAggregatedDataRaises(Columns(acols, aheads, aretcol))
    /\ aggregated' = CreateAggregatedData(ledgers)
    /\ apc' = "aggregated"
    /\ UNCHANGED <<awho, adir, afiles, acols, aheads, aretcol, acatfile, ledgers, catalog, borrowers,
                   books, network, quality, written, clean,
                   varsDates, varsVerify, varsLoad, varsStat, varsCols, varsPeriod>>

\* create_aggregated_data raises; nothing catches it before the script ends
AppAggregateRaises ==
    /\ awho = "app" /\ apc = "books"
    /\ CreateAggregatedDataRaises(Columns(acols, aheads, aretcol))
    /\ apc' = "crashed"
    /\ UNCHANGED <<awho, adir, afiles, acols, aheads, aretcol, acatfile, ledgers, catalog,
                   borrowers, books, aggregated, network, quality, written, clean,
                   varsDates, varsVerify, varsLoad, varsStat, varsCols, varsPeriod>>

\* network_data = create_network_data(ledgers.copy())
AppNetwork ==
    /\ awho = "app" /\ apc = "aggregated"
    /\ network' = CreateNetworkData(ledgers)
    /\ apc' = "network"
    /\ UNCHANGED <<awho, adir, afiles, acols, aheads, aretcol, acatfile, ledgers, catalog, borrowers,
                   books, aggregated, quality, written, clean,
                   varsDates, varsVerify, varsLoad, varsStat, varsCols, varsPeriod>>

\* quality_report = validate_and_report_data_quality(...)
AppValidate ==
    /\ awho = "app" /\ apc = "network"
    /\ quality' = ValidateAndReportDataQuality(ledgers, Columns(acols, aheads, aretcol), catalog,
                                             borrowers, books)
    /\ apc' = "validated"
    /\ UNCHANGED <<awho, adir, afiles, acols, aheads, aretcol, acatfile, ledgers, catalog, borrowers,
                   books, aggregated, network, written, clean,
                   varsDates, varsVerify, varsLoad, varsStat, varsCols, varsPeriod>>

\* the three output files, then "SUCCESS!"
\* the output files written right after the graphs, before the validation
AppWrite_BeforeReport ==
    /\ awho = "app" /\ apc = "network"
    /\ written' = {"library_data.json", "data_quality_report.json", "data_summary.txt"}
    /\ apc' = "written"
    /\ UNCHANGED <<awho, adir, afiles, acols, aheads, aretcol, acatfile, ledgers, catalog, borrowers,
                   books, aggregated, network, quality, clean,
                   varsDates, varsVerify, varsLoad, varsStat, varsCols, varsPeriod>>

AppWrite ==
    /\ awho = "app" /\ apc = "validated"
    /\ written' = {"library_data.json", "data_quality_report.json", "data_summary.txt"}
    /\ apc' = "written"
    /\ UNCHANGED <<awho, adir, afiles, acols, aheads, aretcol, acatfile, ledgers, catalog, borrowers,
                   books, aggregated, network, quality, clean,
                   varsDates, varsVerify, varsLoad, varsStat, varsCols, varsPeriod>>

\* create_clean_library_json returns before it has written anything
CleanAbort ==
    /\ awho = "clean" /\ apc = "start"
    /\ ~adir \/ CleanAborts(afiles, acatfile)
    /\ apc' = "aborted"
    /\ UNCHANGED <<awho, adir, afiles, acols, aheads, aretcol, acatfile, ledgers, catalog, borrowers,
                   books, aggregated, network, quality, written, clean,
                   varsDates, varsVerify, varsLoad, varsStat, varsCols, varsPeriod>>

\* create_clean_library_json raises in the gender step
CleanCrash ==
    /\ awho = "clean" /\ apc = "start"
    /\ adir /\ ~CleanAborts(afiles, acatfile)
    /\ CleanRaises(afiles)
    /\ apc' = "crashed"
    /\ UNCHANGED <<awho, adir, afiles, acols, aheads, aretcol, acatfile, ledgers, catalog, borrowers,
                   books, aggregated, network, quality, written, clean,
                   varsDates, varsVerify, varsLoad, varsStat, varsCols, varsPeriod>>

\* create_clean_library_json runs to its end and writes the document
CleanRun ==
    /\ awho = "clean" /\ apc = "start"
    /\ adir /\ ~CleanAborts(afiles, acatfile)
    /\ ~CleanRaises(afiles)
    /\ clean' = [transactions |-> CleanTransactions(afiles, acols, acatfile),
                 coerced |-> acatfile.found /\ acatfile.rows # <<>>]
    /\ written' = {"library_data.json"}
    /\ apc' = "written"
    /\ UNCHANGED <<awho, adir, afiles, acols, aheads, aretcol, acatfile, ledgers, catalog, borrowers,
                   books, aggregated, network, quality,
                   varsDates, varsVerify, varsLoad, varsStat, varsCols, varsPeriod>>

NextApp ==
    \/ AppNoDataDir \/ AppLoadLedgers \/ AppNoLedgers \/ AppLoadCatalog
    \/ AppCreateBorrowers \/ AppCreateBorrowersRaises
    \/ AppEnhanceBooks \/ AppEnhanceBooksRaises
    \/ AppAggregate \/ AppAggregateRaises \/ AppNetwork \/ AppValidate \/ AppWrite
    \/ CleanAbort \/ CleanCrash \/ CleanRun

SpecApp == InitApp /\ [][NextApp]_vars


\* the runs that start at a loader: the pipeline, the cleaning script and
\* the verifiers
InitRuns == InitApp \/ InitLoad
NextRuns == NextApp \/ NextLoad
SpecRuns == InitRuns /\ [][NextRuns]_vars

\* every script on every input: the pipeline, the cleaning script, the
\* verifiers' loader and their ghost analyses
InitAll == InitApp \/ InitLoad \/ InitVerify
NextAll == NextApp \/ NextLoad \/ NextVerify
SpecAll == InitAll /\ [][NextAll]_vars

\* ---------------------------------------------------------------------------
\* the stages of create_data_for_app that have run when it stands at apc
LedgersLoaded ==
    apc \in {"ledgers", "catalog", "borrowers", "books", "aggregated", "network",
             "validated", "written"}
BorrowersBuilt ==
    apc \in {"borrowers", "books", "aggregated", "network", "validated", "written"}
BooksBuilt == apc \in {"books", "aggregated", "network", "validated", "written"}

\* the scenario: rows A (id 10), B (no id), C (id 99), all with a book name,
\* and a catalog holding only id 10
ScenarioTable ==
    << VRow("Alef", Num(10), Num(10)), VRow("Alef", Null, Null),
       VRow("Alef", Num(99), Num(99)) >>
ScenarioFiles == << Readable(Name1902, <<RowA, RowB, RowC>>) >>

\* what C3 says of the verifiers' reports
C3_VerifierPart ==
    (vdf = ScenarioTable /\ vcat = [loaded |-> TRUE, ids |-> {10}]) =>
          /\ (v2res.done /\ v2res.recorded) =>
                (v2res.ghost_count = 2 /\ v2res.ghost_pct = 667)
          /\ finres.done =>
                (finres.name_only = 2 /\ finres.ghost_pct = 667 /\ finres.both = 1)

\* what C3 says of the pipeline's table and profiles
C3_PipelinePart ==
    (awho = "app" /\ afiles = ScenarioFiles /\ "id" \in acols
        /\ acatfile = Catalog(<<Book10>>)) =>
          /\ LedgersLoaded => ledgers[3].date = NullDate
          /\ BorrowersBuilt =>
                /\ \E k \in DOMAIN borrowers :
                      /\ borrowers[k].borrower_name = Moshe
                      /\ borrowers[k].total_transactions = 2
                      /\ borrowers[k].unique_book_count = 1
                /\ \E k \in DOMAIN borrowers :
                      /\ borrowers[k].borrower_name = Sara
                      /\ borrowers[k].total_transactions = 1

\* C3: on the scenario the verifiers report matched = 1 and ghost = 2
\* (66.7%), the pipeline leaves row C's date null, Moshe's profile has 2
\* transactions and 1 unique book, and Sara's profile has 1 transaction.
C3_Scenario == C3_VerifierPart /\ C3_PipelinePart

\* ---------------------------------------------------------------------------
\* no ledger file was found, or none of those found can be read
NoLedgerRead(files) == \A i \in DOMAIN files : ~files[i].ok

\* C5: when no ledger table is found or none can be read, the run stops at
\* the loader: the pipeline and the cleaning script end without a table, a
\* profile, an aggregate, a graph, a quality report or an output file and
\* never reach the stage that reports success, and the verifiers never reach
\* their checks and report.
C5_NoLedgerAborts ==
    /\ (awho \in {"app", "clean"} /\ (~adir \/ NoLedgerRead(afiles))) =>
          /\ apc \in {"start", "aborted"}
          /\ ledgers = <<>> /\ borrowers = None /\ books = None
          /\ aggregated = None /\ network = None /\ quality = None
          /\ clean = None /\ written = {}
    /\ (lwho \in {"v2", "final"} /\ NoLedgerRead(lfiles)) =>
          /\ lpc \in {"load", "aborted", "crashed"}
          /\ ldf = <<>>

\* the pipeline has returned on ledger files that were found and could not
\* be read
C5_Witness ==
    /\ awho = "app" /\ adir /\ afiles # <<>> /\ NoLedgerRead(afiles)
    /\ apc = "aborted"

\* ---------------------------------------------------------------------------
\* a raw name trimmed and with each run of whitespace collapsed to one blank
Normalised(s) ==
    Pick(s, { i \in DOMAIN s :
                \/ s[i] # " "
                \/ /\ i > 1 /\ s[i - 1] # " "
                   /\ \E j \in (i + 1)..Len(s) : s[j] # " " })

\* the code configures no rewrite rule
Rewritten(s) == s

Identity(s) == Rewritten(Normalised(s))

\* the transactions at rows i and j are listed in the same profile
SameProfile(i, j) ==
    \E k \in DOMAIN borrowers :
        /\ \E x \in DOMAIN borrowers[k].transactions :
              borrowers[k].transactions[x].transaction_id = ledgers[i].transaction_id
        /\ \E y \in DOMAIN borrowers[k].transactions :
              borrowers[k].transactions[y].transaction_id = ledgers[j].transaction_id

\* C6: two raw borrower strings are attributed to the same profile if and
\* only if they are identical or become identical after trimming, collapsing
\* internal whitespace and applying a rewrite rule.
C6_BorrowerIdentity ==
    (awho = "app" /\ BorrowersBuilt) =>
        \A i, j \in DOMAIN ledgers :
            (HasBorrower(ledgers[i]) /\ HasBorrower(ledgers[j])) =>
                (SameProfile(i, j) <=>
                    Identity(ledgers[i].borrower_name) = Identity(ledgers[j].borrower_name))

\* ---------------------------------------------------------------------------
\* C7: a cell that fails coercion is null from the stage that reads it on
\* and makes no later stage raise: no row of the loaded table has a
\* non-numeric book_id, every date is null or canonical, and the pipeline
\* does not end in an exception on a table that held a non-numeric id.
C7_CoercionNeverRaises ==
    awho = "app" =>
        /\ \A i \in DOMAIN ledgers :
              /\ ~IntRaises(ledgers[i].book_id)
              /\ IsCanonical(ledgers[i].date)
        /\ apc = "crashed" =>
              ~ \E i \in DOMAIN ledgers : IntRaises(ledgers[i].book_id)

\* ---------------------------------------------------------------------------
\* the raw row a transaction id belongs to, with the cells its file has
RawOf(tid) == Lacking(CHOOSE r \in ARows \cup EdgeRows : r.tid = tid, acols, aheads)

IsNumber(c) == c.k = "num"

\* the identifier cell the merge selects: the primary ('book id') when the
\* table has both columns and the primary is not null, else the secondary
\* ('id'); the only column when the table has one
Selected(r, cols) ==
    IF cols = BothCols THEN (IF NotNa(r.bid) THEN r.bid ELSE r.id)
    ELSE IF cols = {"id"} THEN r.id
    ELSE r.bid

\* the transactions a run has emitted, with whether the script coerced
\* book_id to a number
Emitted ==
    IF awho = "app" THEN ledgers
    ELSE IF awho = "clean" /\ apc = "written" THEN clean.transactions
    ELSE <<>>
Coerced == awho = "clean" /\ apc = "written" /\ clean.coerced

\* C10 as amended: book_id is taken from the primary identifier whenever the
\* primary is not null, and from the secondary otherwise; a numeric
\* secondary never replaces a primary that is present, even a non-numeric
\* one.  The value taken is kept as it is, except that the cleaning script
\* with a catalog makes it null when it is not a number.  So book_id is
\* null exactly when the value taken is null or, under that coercion, not a
\* number.  With one column only, that column supplies book_id.
C10_SelectedThenCoerced ==
    \A i \in DOMAIN Emitted :
        LET r == RawOf(Emitted[i].transaction_id)
            b == Emitted[i].book_id
        IN  /\ (acols = BothCols /\ NotNa(r.bid)) =>
                  b = (IF Coerced THEN ToNumeric(r.bid) ELSE r.bid)
            /\ (acols = BothCols /\ ~NotNa(r.bid)) =>
                  b = (IF Coerced THEN ToNumeric(r.id) ELSE r.id)
            /\ acols = {"id"} => b = (IF Coerced THEN ToNumeric(r.id) ELSE r.id)
            /\ acols = {"book id"} => b = (IF Coerced THEN ToNumeric(r.bid) ELSE r.bid)
            /\ (b = Null) <=>
                  (~NotNa(Selected(r, acols)) \/ (Coerced /\ ~IsNumber(Selected(r, acols))))

\* the cleaning script has emitted, from a table with both columns and with
\* the coercion, a row whose numeric primary won over a different numeric
\* secondary and a row whose non-numeric primary hid a numeric secondary
C10_Witness ==
    /\ Coerced /\ acols = BothCols
    /\ \E i \in DOMAIN Emitted :
          LET r == RawOf(Emitted[i].transaction_id) IN
          IsNumber(r.bid) /\ IsNumber(r.id) /\ r.bid # r.id /\ Emitted[i].book_id = r.bid
    /\ \E i \in DOMAIN Emitted :
          LET r == RawOf(Emitted[i].transaction_id) IN
          r.bid = Txt /\ IsNumber(r.id) /\ Emitted[i].book_id = Null

\* C10: the canonical book_id is the primary identifier when the primary is
\* non-null and otherwise the secondary; it is null only when both are null
\* or non-numeric; with one column only, that column supplies book_id.
C10_PrimaryElseSecondary ==
    \A i \in DOMAIN Emitted :
        LET r == RawOf(Emitted[i].transaction_id)
            b == Emitted[i].book_id
        IN  /\ (acols = BothCols /\ IsNumber(r.bid)) => b = r.bid
            /\ (acols = BothCols /\ ~NotNa(r.bid) /\ IsNumber(r.id)) => b = r.id
            /\ (acols = BothCols /\ b = Null) => (~IsNumber(r.bid) /\ ~IsNumber(r.id))
            /\ (acols = {"id"} /\ IsNumber(r.id)) => b = r.id
            /\ (acols = {"book id"} /\ IsNumber(r.bid)) => b = r.bid


\* ---------------------------------------------------------------------------
\* a book_id cell that is null or a non-negative integer
NullOrNatural(c) == c = Null \/ (c.k = "num" /\ c.v >= 0)

\* C11: in every transaction the pipeline emits, and in every transaction
\* listed in a borrower profile or under a book profile, book_id is null or
\* a non-negative integer; a negative or non-numeric raw identifier never
\* appears as a book_id.
C11_BookIdNullOrNatural ==
    /\ \A i \in DOMAIN Emitted : NullOrNatural(Emitted[i].book_id)
    /\ (awho = "app" /\ BorrowersBuilt) =>
          \A k \in DOMAIN borrowers :
              \A x \in DOMAIN borrowers[k].transactions :
                  NullOrNatural(borrowers[k].transactions[x].book_id)
    /\ (awho = "app" /\ BooksBuilt) =>
          \A k \in DOMAIN books :
              books[k].transactions # <<>> => NullOrNatural(books[k].book_id)

\* ---------------------------------------------------------------------------
\* the entry a profile lists for a row of the table
ListedAs(t) ==
    [transaction_id |-> t.transaction_id, book_id |-> t.book_id,
     book_name |-> t.book_name, date |-> t.date,
     return_date |-> t.return_date, year |-> t.year]

\* the rows of the table that name this borrower, in table order
RowsOf(name) == SelectSeq(ledgers, LAMBDA t : t.borrower_name = name)

RECURSIVE SumTotals(_, _)
SumTotals(list, k) ==
    IF k > Len(list) THEN 0 ELSE list[k].total_transactions + SumTotals(list, k + 1)

\* C12: the total_transactions of all borrower profiles add up to the number
\* of transactions whose borrower is not null, and every such transaction is
\* listed in exactly one profile: no two profiles share a borrower, each
\* profile lists exactly the rows that name its borrower, once per row, and
\* every named borrower has a profile.
C12_TransactionsConserved ==
    (awho = "app" /\ BorrowersBuilt) =>
        /\ SumTotals(borrowers, 1) = Len(SelectSeq(ledgers, HasBorrower))
        /\ \A j, k \in DOMAIN borrowers :
              borrowers[j].borrower_name = borrowers[k].borrower_name => j = k
        /\ \A k \in DOMAIN borrowers :
              LET rows == RowsOf(borrowers[k].borrower_name) IN
              /\ HasBorrower(borrowers[k])
              /\ borrowers[k].total_transactions = Len(rows)
              /\ borrowers[k].transactions = [x \in DOMAIN rows |-> ListedAs(rows[x])]
        /\ \A i \in DOMAIN ledgers :
              HasBorrower(ledgers[i]) =>
                  \E k \in DOMAIN borrowers :
                      borrowers[k].borrower_name = ledgers[i].borrower_name

\* profiles were built from a table that holds a row without a borrower, the
\* same row twice and a second borrower
C12_Witness ==
    /\ awho = "app" /\ BorrowersBuilt
    /\ \E i \in DOMAIN ledgers : ~HasBorrower(ledgers[i])
    /\ \E i, j \in DOMAIN ledgers :
          i < j /\ HasBorrower(ledgers[i]) /\ ledgers[i] = ledgers[j]
    /\ Len(borrowers) = 1
    /\ borrowers[1].total_transactions = 2

\* ---------------------------------------------------------------------------
\* the monthly histogram of a profile, read off its transaction list: the
\* positions of the dated transactions of month m
DatedIn(b, m) ==
    { x \in DOMAIN b.transactions :
        b.transactions[x].date # NullDate /\ b.transactions[x].date.b = m }
MonthCount(b, m) == Cardinality(DatedIn(b, m))
TopMonths(b) ==
    { m \in 1..12 : /\ MonthCount(b, m) > 0
                    /\ \A n \in 1..12 : MonthCount(b, n) <= MonthCount(b, m) }

\* C13 as amended: most_active_month is a month with the largest count in
\* the borrower's monthly histogram (none when no transaction is dated), and
\* when several months share the largest count it is the one of them whose
\* first transaction comes earliest in the borrower's transaction list.
C13_FirstSeenTopMonth ==
    (awho = "app" /\ BorrowersBuilt) =>
        \A k \in DOMAIN borrowers :
            LET b == borrowers[k] IN
            IF TopMonths(b) = {} THEN b.most_active_month = 0
            ELSE /\ b.most_active_month \in TopMonths(b)
                 /\ \A m \in TopMonths(b) :
                       Min(DatedIn(b, b.most_active_month)) <= Min(DatedIn(b, m))

\* a profile whose two months tie, the higher month number listed first and
\* reported as most active
C13_Witness ==
    /\ awho = "app" /\ BorrowersBuilt
    /\ \E k \in DOMAIN borrowers :
          /\ TopMonths(borrowers[k]) = {1, 2}
          /\ borrowers[k].transactions[1].date.b = 2
          /\ borrowers[k].most_active_month = 2

\* C13: most_active_month is a month with the largest count in the
\* borrower's monthly histogram, and on a tie the lowest month number among
\* them, whatever the order of the borrower's transactions.
C13_LowestTopMonth ==
    (awho = "app" /\ BorrowersBuilt) =>
        \A k \in DOMAIN borrowers :
            TopMonths(borrowers[k]) # {} =>
                borrowers[k].most_active_month = Min(TopMonths(borrowers[k]))

\* ---------------------------------------------------------------------------
\* largest active year - smallest active year + 1 of a profile with an
\* active year
YearsSpan(b) == Max(b.years_active) - Min(b.years_active) + 1

\* C14 as amended: reading_velocity (kept in hundredths) is total_transactions
\* divided by (largest active year - smallest active year + 1) rounded to
\* two decimals, so within half a hundredth of the quotient; it is 0 when
\* the borrower has no active year, and with an active year only when the
\* quotient rounds to 0; the divisor is at least 1.
C14_VelocityRounded ==
    (awho = "app" /\ BorrowersBuilt) =>
        \A k \in DOMAIN borrowers :
            LET b == borrowers[k] IN
            IF b.years_active = {} THEN b.reading_velocity = 0
            ELSE /\ YearsSpan(b) >= 1
                 /\ 2 * (100 * b.total_transactions - b.reading_velocity * YearsSpan(b))
                       <= YearsSpan(b)
                 /\ 2 * (b.reading_velocity * YearsSpan(b) - 100 * b.total_transactions)
                       <= YearsSpan(b)
                 /\ b.reading_velocity = 0 => 200 * b.total_transactions <= YearsSpan(b)

\* a profile of two transactions over the years 1902..1904 with velocity
\* 0.67, beside a profile with a transaction and no active year
C14_Witness ==
    /\ awho = "app" /\ BorrowersBuilt
    /\ \E k \in DOMAIN borrowers :
          /\ borrowers[k].years_active = {1902, 1904}
          /\ borrowers[k].total_transactions = 2
          /\ borrowers[k].reading_velocity = 67
    /\ \E k \in DOMAIN borrowers :
          /\ borrowers[k].years_active = {}
          /\ borrowers[k].total_transactions > 0
          /\ borrowers[k].reading_velocity = 0

\* C14: reading_velocity equals total_transactions divided by (largest
\* active year - smallest active year + 1), it is 0 exactly when the
\* borrower has no active year, and the divisor is at least 1.
C14_VelocityExact ==
    (awho = "app" /\ BorrowersBuilt) =>
        \A k \in DOMAIN borrowers :
            LET b == borrowers[k] IN
            /\ b.years_active # {} =>
                  /\ YearsSpan(b) >= 1
                  /\ b.reading_velocity * YearsSpan(b) = 100 * b.total_transactions
            /\ b.reading_velocity = 0 <=> b.years_active = {}

\* ---------------------------------------------------------------------------
\* the book ids that occur in a transaction, and those of the catalog
TransactionBookIds == { ledgers[i].book_id.v : i \in { j \in DOMAIN ledgers : HasBook(ledgers[j]) } }
CatalogBookIds == { catalog[k].book_id.v : k \in { j \in DOMAIN catalog : NotNa(catalog[j].book_id) } }

\* the ghost profiles with this book_id
GhostsOf(id) == { k \in DOMAIN books : books[k].is_ghost /\ books[k].book_id = Num(id) }

\* the first non-null book_name among the transactions with this book_id,
\* or 'Unknown Book #<id>'
FirstNameOf(id) ==
    LET named == { i \in DOMAIN ledgers :
                     ledgers[i].book_id = Num(id) /\ ledgers[i].book_name # "" }
    IN  IF named = {} THEN UnknownBook(id) ELSE Title(ledgers[Min(named)].book_name)

\* C15: enhance_books_with_transactions returns exactly one ghost profile
\* for each book_id that occurs in a transaction and is absent from the
\* catalog, and none for a book_id present in the catalog or in no
\* transaction; the ghost's title is the first non-null book_name among the
\* transactions with that book_id, or 'Unknown Book #<id>'.
C15_GhostProfiles ==
    (awho = "app" /\ BooksBuilt) =>
        /\ \A id \in TransactionBookIds \ CatalogBookIds :
              /\ Cardinality(GhostsOf(id)) = 1
              /\ \A k \in GhostsOf(id) : books[k].title = FirstNameOf(id)
        /\ \A k \in DOMAIN books :
              books[k].is_ghost =>
                  /\ books[k].book_id.v \in TransactionBookIds
                  /\ books[k].book_id.v \notin CatalogBookIds

\* ---------------------------------------------------------------------------
AggregatedBuilt == apc \in {"aggregated", "network", "validated", "written"}

RECURSIVE SumByYear(_, _)
SumByYear(by_year, k) ==
    IF k > Len(by_year) THEN 0
    ELSE by_year[k].stats.total_transactions + SumByYear(by_year, k + 1)

Dated(t) == t.date # NullDate
Tagged(t) == NotNa(t.year)

\* C16 as amended: the per-year transaction counts of create_aggregated_data
\* add up to the number of transactions that have a numeric year, the year
\* tagged from the name of the ledger file, whether or not their date is
\* null; that number is also the summary's total.
C16_YearCountsCoverTagged ==
    (awho = "app" /\ AggregatedBuilt) =>
        /\ SumByYear(aggregated.by_year, 1) = Len(SelectSeq(ledgers, Tagged))
        /\ aggregated.summary.total_transactions = SumByYear(aggregated.by_year, 1)

\* aggregates built from a table with an undated row that has a year and a
\* dated row that has none, where the per-year sum is not the dated count
C16_Witness ==
    /\ awho = "app" /\ AggregatedBuilt
    /\ \E i \in DOMAIN ledgers : Tagged(ledgers[i]) /\ ~Dated(ledgers[i])
    /\ \E i \in DOMAIN ledgers : Dated(ledgers[i]) /\ ~Tagged(ledgers[i])
    /\ SumByYear(aggregated.by_year, 1) = 2
    /\ Len(SelectSeq(ledgers, Dated)) = 1

\* C16: the per-year transaction counts of create_aggregated_data add up to
\* the number of transactions with a non-null normalized date.
C16_YearCountsCoverDated ==
    (awho = "app" /\ AggregatedBuilt) =>
        SumByYear(aggregated.by_year, 1) = Len(SelectSeq(ledgers, Dated))

\* ---------------------------------------------------------------------------
NetworkBuilt == apc \in {"network", "validated", "written"}

\* the transactions of a window: period 0 is 'all', period k > 0 the k-th
\* configured one; a transaction without a numeric year is in no window
InWindow(p) ==
    SelectSeq(ledgers, LAMBDA t :
        /\ Tagged(t)
        /\ p > 0 => (t.year.v >= Periods[p][1] /\ t.year.v <= Periods[p][2]))

GraphsOf(p) == { g \in DOMAIN network : network[g].period = p }

\* the graph g has one node per book and per borrower of rows, one edge per
\* pair that occurs together, weighted by the number of such rows, and
\* every edge joins two of its nodes
GraphMatches(g, rows) ==
    LET ids == { rows[i].book_id.v : i \in { j \in DOMAIN rows : HasBook(rows[j]) } }
        names == { rows[i].borrower_name : i \in { j \in DOMAIN rows : HasBorrower(rows[j]) } }
        pairs == { <<rows[i].borrower_name, rows[i].book_id.v>> :
                     i \in { j \in DOMAIN rows : HasBorrower(rows[j]) /\ HasBook(rows[j]) } }
    IN  /\ { g.book_nodes[k].id : k \in DOMAIN g.book_nodes } = ids
        /\ Len(g.book_nodes) = Cardinality(ids)
        /\ { g.borrower_nodes[k].label : k \in DOMAIN g.borrower_nodes } = names
        /\ Len(g.borrower_nodes) = Cardinality(names)
        /\ { <<g.edges[k].from, g.edges[k].to>> : k \in DOMAIN g.edges } = pairs
        /\ Len(g.edges) = Cardinality(pairs)
        /\ \A k \in DOMAIN g.edges :
              /\ g.edges[k].value =
                    Cardinality({ i \in DOMAIN rows :
                                    /\ rows[i].borrower_name = g.edges[k].from
                                    /\ rows[i].book_id = Num(g.edges[k].to) })
              /\ g.edges[k].from \in names
              /\ g.edges[k].to \in ids

\* C17: for each configured window ('all' included) that holds a
\* transaction there is one graph, with exactly one node per distinct
\* non-null book_id and per distinct non-null borrower of the window's
\* transactions and exactly one edge per borrower-book pair that occurs in
\* the window, its weight the number of the window's transactions with that
\* pair; every edge endpoint is a node of the same graph.  A window without
\* a transaction has no graph.
C17_WindowGraphs ==
    (awho = "app" /\ NetworkBuilt) =>
        \A p \in 0..Len(Periods) :
            IF InWindow(p) = <<>> THEN GraphsOf(p) = {}
            ELSE /\ Cardinality(GraphsOf(p)) = 1
                 /\ \A g \in GraphsOf(p) : GraphMatches(network[g].graph, InWindow(p))

\* graphs were built for the windows 1902 and 1903-1904, the first with an
\* edge of weight 2
C17_Witness ==
    /\ awho = "app" /\ NetworkBuilt
    /\ GraphsOf(1) # {} /\ GraphsOf(2) # {}
    /\ \E g \in GraphsOf(1) :
          \E k \in DOMAIN network[g].graph.edges : network[g].graph.edges[k].value = 2

\* ===========================================================================
\* strashun_verifier.py: verify_stat and generate_summary_report.  A value
\* handed to verify_stat is a Python int, a Python float (numpy floats are
\* floats too), a numpy integer as pandas returns from sum(), max() or
\* value_counts(), or a text; numbers are kept in hundredths.
\* ===========================================================================
PyInt(n) == [t |-> "int", v |-> 100 * n]
PyFloat(h) == [t |-> "float", v |-> h]
NpInt(n) == [t |-> "npint", v |-> 100 * n]
PyStr(n) == [t |-> "str", v |-> n]

\* isinstance(x, (int, float))
IsIntOrFloat(x) == x.t \in {"int", "float"}

\* claimed == actual
PyEquals(x, y) == (x.t = "str") = (y.t = "str") /\ x.v = y.v

Abs(n) == IF n < 0 THEN -n ELSE n

\* tolerance=0.01, in hundredths
DefaultTolerance == 1

Absent == [null |-> TRUE, num |-> 0, den |-> 1]
Ratio(num, den) == [null |-> FALSE, num |-> num, den |-> den]

\* the match flag: |claimed - actual| <= tolerance for |claimed| < 1, else
\* <= max(1, claimed * tolerance); equality when either is no int or float
StatMatch(claimed, actual, tolerance) ==
    IF IsIntOrFloat(claimed) /\ IsIntOrFloat(actual)
    THEN IF Abs(claimed.v) < 100
         THEN Abs(claimed.v - actual.v) <= tolerance
         ELSE 100 * Abs(claimed.v - actual.v) <= Max({100 * 100, claimed.v * tolerance})
    ELSE PyEquals(claimed, actual)

\* the result dict of one call; diff in hundredths, diff_pct as the quotient
\* (actual - claimed) * 100 / claimed
StatResult(claimed, actual, tolerance, category) ==
    LET both == IsIntOrFloat(claimed) /\ IsIntOrFloat(actual) IN
    [category |-> category,
     claimed |-> claimed,
     actual |-> actual,
     match |-> StatMatch(claimed, actual, tolerance),
     diff |-> IF both THEN Ratio(actual.v - claimed.v, 100) ELSE Absent,
     diff_pct |-> IF both /\ claimed.v # 0
                  THEN Ratio((actual.v - claimed.v) * 100, claimed.v)
                  ELSE Absent]

\* the figures verify_stat is called with
ClaimedValues == { PyInt(0), PyInt(200), PyFloat(50), PyStr(1) }
ActualValues == { PyInt(0), PyInt(198), PyInt(197), NpInt(198), PyFloat(50), PyStr(1) }
Categories == { "Counts", "Temporal" }

\* the categories of the results in order of first appearance
CategoriesOf(results) == Unique([i \in DOMAIN results |-> results[i].category])

\* what generate_summary_report computes from the results
SummaryOf(results) ==
    LET passed == Cardinality({ i \in DOMAIN results : results[i].match })
        cats == CategoriesOf(results)
    IN  [total_checks |-> Len(results),
         passed |-> passed,
         failed |-> Len(results) - passed,
         by_category |->
            [k \in DOMAIN cats |->
                [category |-> cats[k],
                 passed |-> Cardinality({ i \in DOMAIN results :
                               results[i].category = cats[k] /\ results[i].match }),
                 total |-> Cardinality({ i \in DOMAIN results :
                               results[i].category = cats[k] })]]]

InitStat ==
    /\ IdleCols
    /\ IdlePeriod
    /\ IdleDates
    /\ IdleVerify
    /\ IdleLoad
    /\ IdleApp
    /\ verification_results = <<>>
    /\ ncalls = 0
    /\ summary = None
    /\ spc = "checks"

\* one call of verify_stat from a verify_* method; the caller drops the
\* returned flag
VerifyStat ==
    /\ spc = "checks"
    /\ ncalls < MaxChecks
    /\ \E claimed \in ClaimedValues, actual \in ActualValues, category \in Categories :
          verification_results' =
              Append(verification_results,
                     StatResult(claimed, actual, DefaultTolerance, category))
    /\ ncalls' = ncalls + 1
    /\ UNCHANGED <<summary, spc, varsDates, varsVerify, varsLoad, varsApp, varsCols, varsPeriod>>

\* generate_summary_report with results to report
GenerateSummaryReport ==
    /\ spc = "checks"
    /\ verification_results # <<>>
    /\ summary' = SummaryOf(verification_results)
    /\ spc' = "reported"
    /\ UNCHANGED <<verification_results, ncalls, varsDates, varsVerify, varsLoad, varsApp, varsCols, varsPeriod>>

\* generate_summary_report returns at once when no result was recorded
GenerateNoReport ==
    /\ spc = "checks"
    /\ verification_results = <<>>
    /\ spc' = "reported"
    /\ UNCHANGED <<verification_results, ncalls, summary,
                   varsDates, varsVerify, varsLoad, varsApp, varsCols, varsPeriod>>

NextStat == VerifyStat \/ GenerateSummaryReport \/ GenerateNoReport

SpecStat == InitStat /\ [][NextStat]_vars

\* ---------------------------------------------------------------------------
\* a numeric value: an integer or a float, whatever library made it
IsNumeric(x) == x.t \in {"int", "float", "npint"}

\* |claimed - actual| <= tolerance when |claimed| < 1, else
\* <= max(1, claimed * tolerance), on hundredths
WithinTolerance(claimed, actual, tolerance) ==
    IF Abs(claimed.v) < 100
    THEN Abs(claimed.v - actual.v) <= tolerance
    ELSE 100 * Abs(claimed.v - actual.v) <= Max({100 * 100, claimed.v * tolerance})

RECURSIVE SumCategoryTotals(_, _)
SumCategoryTotals(cats, k) ==
    IF k > Len(cats) THEN 0 ELSE cats[k].total + SumCategoryTotals(cats, k + 1)

RECURSIVE SumCategoryPassed(_, _)
SumCategoryPassed(cats, k) ==
    IF k > Len(cats) THEN 0 ELSE cats[k].passed + SumCategoryPassed(cats, k + 1)

\* C18: verify_stat records exactly one result per call; for numeric claimed
\* and actual values the result carries the signed difference actual -
\* claimed, the percentage difference (null when claimed is 0) and a pass
\* flag that is true iff the values are within tolerance; a failed check is
\* recorded with pass false and counted in the summary, where passed +
\* failed is the number of checks and the per-category totals add up to it.
C18_StatRecorded ==
    /\ spc # "idle" => Len(verification_results) = ncalls
    /\ \A i \in DOMAIN verification_results :
          LET r == verification_results[i] IN
          (IsNumeric(r.claimed) /\ IsNumeric(r.actual)) =>
              /\ r.diff = Ratio(r.actual.v - r.claimed.v, 100)
              /\ r.diff_pct = (IF r.claimed.v = 0 THEN Absent
                               ELSE Ratio((r.actual.v - r.claimed.v) * 100, r.claimed.v))
              /\ r.match <=> WithinTolerance(r.claimed, r.actual, DefaultTolerance)
    /\ (spc = "reported" /\ verification_results # <<>>) =>
          /\ summary.total_checks = Len(verification_results)
          /\ summary.passed + summary.failed = summary.total_checks
          /\ summary.failed =
                Cardinality({ i \in DOMAIN verification_results :
                                ~verification_results[i].match })
          /\ SumCategoryTotals(summary.by_category, 1) = summary.total_checks
          /\ SumCategoryPassed(summary.by_category, 1) = summary.passed

\* ---------------------------------------------------------------------------
\* a step of the pipeline after the catalog was loaded: a profile, aggregate
\* or graph construction, the quality report or the writing of the output
AfterCatalogStep ==
    /\ awho = "app"
    /\ apc \in {"catalog", "borrowers", "books", "aggregated", "network", "validated"}
    /\ apc' # apc

QualityStep == awho = "app" /\ apc = "network" /\ apc' = "validated"

VerifyAllStep == ~finres.done /\ finres'.done

\* C19: the quality and verification steps are observational: the quality
\* report and the verifier's verify_all leave the transaction table with the
\* same rows, columns and values, and the loaded catalog is changed by no
\* aggregation or quality step.
C19_Observational ==
    [][ /\ QualityStep => (ledgers' = ledgers /\ catalog' = catalog)
        /\ AfterCatalogStep => catalog' = catalog
        /\ VerifyAllStep => (vdf' = vdf /\ book_base' = book_base) ]_vars


\* ---------------------------------------------------------------------------
\* the rows of the table with both dates present and the return date earlier
Offending ==
    { i \in DOMAIN ledgers :
        /\ ledgers[i].date # NullDate
        /\ ledgers[i].return_date # NullDate
        /\ DateLess(ledgers[i].return_date, ledgers[i].date) }

QualityBuilt == apc \in {"validated", "written"}

DateWarnings ==
    { k \in DOMAIN quality.warnings : quality.warnings[k] = "date_inconsistency" }

\* C20: once the quality report is built it holds one date_inconsistency
\* warning, whose count is the number of transactions of the table that have
\* both 'date' and 'return_date' present with 'return_date' earlier than
\* 'date', when there is such a transaction, and none when there is not; the
\* table is still the loader's output, and every offending row that names a
\* borrower is listed in a profile with its date and return date as they are
\* in the table.  (Under the header 'return date' no transaction has a
\* 'return_date', and no warning is recorded.)
C20_DateOrderWarned ==
    (awho = "app" /\ QualityBuilt) =>
        LET n == Cardinality(Offending) IN
        /\ n > 0 => (Cardinality(DateWarnings) = 1 /\ quality.date_issues = n)
        /\ n = 0 => DateWarnings = {}
        /\ ledgers = LoadAndPrepareLedgers(afiles, acols, aretcol)
        /\ \A i \in Offending :
              HasBorrower(ledgers[i]) =>
                  \E k \in DOMAIN borrowers :
                      \E x \in DOMAIN borrowers[k].transactions :
                          LET e == borrowers[k].transactions[x] IN
                          /\ e.transaction_id = ledgers[i].transaction_id
                          /\ e.date = ledgers[i].date
                          /\ e.return_date = ledgers[i].return_date

\* a report that counts an offending row while another row, returned after it
\* was borrowed, is not counted
C20_Witness ==
    /\ awho = "app" /\ QualityBuilt
    /\ aretcol = "return_date"
    /\ Offending # {}
    /\ DateWarnings # {}
    /\ \E i \in DOMAIN ledgers :
          /\ i \notin Offending
          /\ ledgers[i].date # NullDate
          /\ ledgers[i].return_date # NullDate


\* ---------------------------------------------------------------------------
\* the rows of the readable files as read, in the order of the table
RawTable ==
    LET read == ReadableFiles(afiles)
    IN  Concat([k \in DOMAIN read |-> read[k].rows])

\* the anomalies the loader recovered from: a date cell that held a text and
\* is null after standardize_dates, a file that could not be read
NulledDates ==
    { i \in DOMAIN ledgers :
          RawTable[i].date # NullDate /\ ledgers[i].date = NullDate }

SkippedFiles == { k \in DOMAIN afiles : ~afiles[k].ok }

Recovered == Cardinality(NulledDates) + Cardinality(SkippedFiles)

\* the same files without the anomalies: the unreadable files left out, the
\* nulled date cells empty from the start
RECURSIVE RepairFrom(_, _)
RepairFrom(files, off) ==
    IF files = <<>> THEN <<>>
    ELSE LET f == Head(files)
             rows == [j \in DOMAIN f.rows |->
                        IF (off + j) \in NulledDates
                        THEN [f.rows[j] EXCEPT !.date = NullDate]
                        ELSE f.rows[j]]
         IN  <<[f EXCEPT !.rows = rows]>> \o RepairFrom(Tail(files), off + Len(f.rows))

Repaired == RepairFrom(ReadableFiles(afiles), 0)

\* the quality reports a run on these files can end with
ReportsOf(files) ==
    LET tbl == LoadAndPrepareLedgers(files, acols, aretcol)
    IN  { ValidateAndReportDataQuality(tbl, Columns(acols, aheads, aretcol), catalog,
              CreateBorrowersList(tbl),
              EnhanceBooksWithTransactions(catalog, tbl, o)) :
            o \in Orders(GhostIds(catalog, BookTransactions(tbl, 1, <<>>))) }

\* C21: no recovered anomaly is dropped silently: the values nulled by a
\* failed coercion and the files skipped as unreadable are counted and the
\* count is in the quality report of the run.  A report that holds the count
\* tells a run that recovered from anomalies from the run on the same files
\* without them, whose count is zero: the report of the first is none of the
\* reports the second can end with.
C21_AnomaliesCounted ==
    (awho = "app" /\ QualityBuilt /\ Recovered > 0) =>
        quality \notin ReportsOf(Repaired)


\* ---------------------------------------------------------------------------
\* the mandatory fields no column of the files maps to, by the name the
\* report gives them
Unmapped ==
    {"borrower_name", "date", "book_id"} \ Columns(acols, aheads, aretcol)

Reported ==
    { quality.missing_columns[k] : k \in DOMAIN quality.missing_columns }

\* C22: a run on files that lack the column of a mandatory field (borrower,
\* date, book identity) does not abort: no stage raises, and once the report
\* is built it holds a missing_columns warning that names, of the mandatory
\* fields, exactly the missing ones, while the metrics of a missing field are
\* zero (no row with a date, a book or a borrower; no profile of that kind).
C22_DegradedRun ==
    (awho = "app" /\ Unmapped # {}) =>
        /\ apc # "crashed"
        /\ QualityBuilt =>
              /\ \E k \in DOMAIN quality.warnings : quality.warnings[k] = "missing_columns"
              /\ Reported \cap {"borrower_name", "date", "book_id"} = Unmapped
              /\ "date" \in Unmapped => quality.transactions.with_dates = 0
              /\ "book_id" \in Unmapped => quality.transactions.with_books = 0
              /\ "borrower_name" \in Unmapped =>
                    (quality.transactions.with_borrowers = 0 /\ borrowers = <<>>)


\* ---------------------------------------------------------------------------
\* the orders in which the directory listing can return the same files
Listings(files) ==
    { [i \in DOMAIN files |-> files[p[i]]] :
        p \in { q \in [DOMAIN files -> DOMAIN files] :
                  \A i, j \in DOMAIN files : q[i] = q[j] => i = j } }

\* what the loader ends with on a listing: the merged table after the
\* record-id pass, the exact duplicates and the rows removed by record id
LoadedFrom(files) ==
    LET read == ReadableFiles(files)
        tables == [k \in DOMAIN read |-> DropDuplicates(read[k].rows)]
        all == Concat(tables)
        kept == RemoveDuplicateTransactions(all)
    IN  [df |-> kept,
         exact |-> Len(Concat([k \in DOMAIN read |-> read[k].rows])) - Len(all),
         by_id |-> Len(all) - Len(kept)]

LoadMerged == lpc \in {"merged", "reported"}

\* C23: the outcome of the loader/merger is the same for every order in
\* which the directory listing returns the same files: the same retained rows
\* in the same order and the same removal counts.
C23_ListingOrderIrrelevant ==
    LoadMerged =>
        \A g \in Listings(lfiles) :
            LoadedFrom(g) = [df |-> ldf, exact |-> ldups, by_id |-> lidremoved]


\* ===========================================================================
\* StrashunVerifierV2.find_best_column.  A column name is the sequence of its
\* words as written; a keyword is in the lowercased name when it is one of
\* the lowercased words.  A table is its number of rows and its columns in
\* order, each with a name and one cell per row.
\* ===========================================================================
MaxRows == 2       \* most rows of a table given to find_best_column

\* str.lower() on a word
Lower(w) ==
    CASE w = "ID" -> "id"
      [] w = "Date" -> "date"
      [] w = "Vol_1_1" -> "vol_1_1"
      [] OTHER -> w

\* kw in col_lower
Contains(name, kw) == \E i \in DOMAIN name : Lower(name[i]) = kw

\* the headers of the ledger files
Headers ==
    { <<"person", "name">>, <<"book", "name">>, <<"book", "id">>, <<"id">>,
      <<"date">>, <<"Date">>, <<"return", "date">>, <<"ID", "record">> }

Column(name, cells) == [name |-> name, cells |-> cells]

\* the tables of at most two columns with different names and n rows
TablesOf(n) ==
    LET Cols == { Column(h, c) : h \in Headers, c \in [1..n -> {Null, Num(1)}] }
    IN  { [n |-> n, columns |-> <<>>] }
        \cup { [n |-> n, columns |-> <<a>>] : a \in Cols }
        \cup { [n |-> n, columns |-> <<p[1], p[2]>>] :
                 p \in { q \in Cols \X Cols : q[1].name # q[2].name } }

\* the calls of identify_key_columns and detect_period
Lookups ==
    { [keywords |-> <<"person", "borrower", "patron", "name">>,
       exclude |-> {"book", "return", "image"}],
      [keywords |-> <<"book", "title", "item">>, exclude |-> {"person", "borrower", "id"}],
      [keywords |-> <<"book", "id">>, exclude |-> {"person", "borrower", "record"}],
      [keywords |-> <<"date">>, exclude |-> {"return", "transcription"}],
      [keywords |-> <<"id", "record">>, exclude |-> {"book", "person", "name"}] }

\* any(excl in col_lower for excl in exclude_keywords)
Excluded(col, exclude) == \E e \in exclude : Contains(col.name, e)

\* sum(1 for kw in keywords if kw in col_lower)
KeywordScore(col, keywords) ==
    Cardinality({ k \in DOMAIN keywords : Contains(col.name, keywords[k]) })

\* df[col].notna().sum()
NonNull(col) == Cardinality({ i \in DOMAIN col.cells : NotNa(col.cells[i]) })

\* the positions of the columns that become candidates
Candidates(df, keywords, exclude) ==
    { i \in DOMAIN df.columns :
          /\ ~Excluded(df.columns[i], exclude)
          /\ KeywordScore(df.columns[i], keywords) > 0 }

NoColumn == [kind |-> "none"]
ZeroDivision == [kind |-> "raised"]

\* candidates.sort(key=(keyword_score, non_null_ratio), reverse=True)[0]: the
\* sort is stable, so of the candidates with the largest key the first in
\* column order comes first.  On a table without rows the ratios of the first
\* candidate divide by len(df) = 0: non_null_ratio is a numpy quotient (nan),
\* unique_ratio divides a Python int and raises ZeroDivisionError.
FindBestColumn(df, keywords, exclude) ==
    LET cand == Candidates(df, keywords, exclude)
        Better(i, j) ==
            LET si == KeywordScore(df.columns[i], keywords)
                sj == KeywordScore(df.columns[j], keywords)
            IN  \/ si > sj
                \/ si = sj /\ NonNull(df.columns[i]) > NonNull(df.columns[j])
    IN  IF cand = {} THEN NoColumn
        ELSE IF df.n = 0 THEN ZeroDivision
        ELSE LET top == { i \in cand : \A j \in cand : ~Better(j, i) }
                 c == df.columns[Min(top)]
             IN  [kind |-> "column",
                  column |-> c.name,
                  keyword_score |-> KeywordScore(c, keywords),
                  non_null |-> NonNull(c),
                  rows |-> df.n]

InitCols ==
    /\ IdleDates
    /\ IdleVerify
    /\ IdleLoad
    /\ IdleApp
    /\ IdleStat
    /\ IdlePeriod
    /\ fdf \in UNION { TablesOf(n) : n \in 0..MaxRows }
    /\ fcall \in Lookups
    /\ fres = [kind |-> "called"]

\* the call returns a candidate or None
FindBestColumnReturns ==
    /\ fres = [kind |-> "called"]
    /\ FindBestColumn(fdf, fcall.keywords, fcall.exclude) # ZeroDivision
    /\ fres' = FindBestColumn(fdf, fcall.keywords, fcall.exclude)
    /\ UNCHANGED <<fdf, fcall, varsDates, varsVerify, varsLoad, varsApp, varsStat, varsPeriod>>

\* the call raises
FindBestColumnRaises ==
    /\ fres = [kind |-> "called"]
    /\ FindBestColumn(fdf, fcall.keywords, fcall.exclude) = ZeroDivision
    /\ fres' = ZeroDivision
    /\ UNCHANGED <<fdf, fcall, varsDates, varsVerify, varsLoad, varsApp, varsStat, varsPeriod>>

NextCols == FindBestColumnReturns \/ FindBestColumnRaises

SpecCols == InitCols /\ [][NextCols]_vars

\* ---------------------------------------------------------------------------
Returned == fres.kind \in {"column", "none", "raised"}

\* the positions of the columns that qualify: the lowercased name holds no
\* exclusion keyword and at least one hint keyword
Qualifying ==
    { i \in DOMAIN fdf.columns :
          /\ \A e \in fcall.exclude : ~Contains(fdf.columns[i].name, e)
          /\ \E k \in DOMAIN fcall.keywords :
                Contains(fdf.columns[i].name, fcall.keywords[k]) }

Matched(i) ==
    Cardinality({ k \in DOMAIN fcall.keywords :
                    Contains(fdf.columns[i].name, fcall.keywords[k]) })

Filled(i) ==
    Cardinality({ r \in 1..fdf.n : fdf.columns[i].cells[r] # Null })

\* what the claim asks of a call that has ended, exceptions apart
SelectsBest ==
    /\ (fres.kind = "none") <=> (Qualifying = {})
    /\ fres.kind = "column" =>
          \E i \in Qualifying :
              /\ fdf.columns[i].name = fres.column
              /\ \A j \in Qualifying : Matched(j) <= Matched(i)
              /\ \A j \in Qualifying :
                    Matched(j) = Matched(i) => Filled(j) <= Filled(i)

\* C24: find_best_column selects no column whose lowercased name holds an
\* exclusion keyword or no hint keyword; it returns a column with the most
\* matched hint keywords and, among those, with the highest non-null
\* fraction; it returns None exactly when no column qualifies; and it returns
\* rather than raises for every table, also one with zero rows.
C24_BestColumn ==
    Returned => (fres.kind # "raised" /\ SelectsBest)


\* ---------------------------------------------------------------------------
\* the steps of create_data_for_app from one stage to the next, and the ways
\* it ends early
StageSteps ==
    { <<"start", "ledgers">>, <<"ledgers", "catalog">>, <<"catalog", "borrowers">>,
      <<"borrowers", "books">>, <<"books", "aggregated">>, <<"aggregated", "network">>,
      <<"network", "validated">>, <<"validated", "written">>,
      <<"start", "aborted">>, <<"catalog", "crashed">>, <<"borrowers", "crashed">>,
      <<"books", "crashed">> }

\* the complete output of the loader for the files of the run
LoaderOutput == LoadAndPrepareLedgers(afiles, acols, aretcol)

\* C25: in a run of create_data_for_app each step leads from a stage to the
\* next one in the order ledgers, catalog, borrowers, books, aggregates,
\* graphs, quality report, output files (or ends the run); the table is the
\* complete loader output with every date normalized when the loader step
\* ends, it is that same table when the profile, aggregate and graph stages
\* read it, and the output files are written only by the step that follows
\* the quality report.
C25_StageOrder ==
    [][ (awho = "app" /\ apc' # apc) =>
          /\ <<apc, apc'>> \in StageSteps
          /\ apc' = "ledgers" =>
                /\ ledgers' = LoaderOutput
                /\ \A i \in DOMAIN ledgers' : IsCanonical(ledgers'[i].date)
          /\ apc' \in {"borrowers", "books", "aggregated", "network", "validated"} =>
                /\ ledgers = LoaderOutput
                /\ ledgers' = ledgers
                /\ \A i \in DOMAIN ledgers : IsCanonical(ledgers[i].date)
          /\ apc' = "aggregated" => aggregated' = CreateAggregatedData(LoaderOutput)
          /\ apc' = "network" => network' = CreateNetworkData(LoaderOutput)
          /\ written' # written =>
                /\ apc = "validated"
                /\ quality = ValidateAndReportDataQuality(ledgers,
                                 Columns(acols, aheads, aretcol), catalog, borrowers, books)
                /\ quality' = quality ]_vars

\* a finished run whose table holds a date that was rewritten by the
\* normalization and whose book list holds a ghost
C25_Witness ==
    /\ awho = "app" /\ apc = "written"
    /\ written = {"library_data.json", "data_quality_report.json", "data_summary.txt"}
    /\ \E i \in DOMAIN ledgers :
          ledgers[i].date # NullDate /\ ledgers[i].date # RawTable[i].date
    /\ \E k \in DOMAIN books : books[k].is_ghost


\* ===========================================================================
\* The period tag of one transaction file.  A file name is the set of marks
\* the code looks for that occur in it; the table has one column of raw dates
\* under a header.
\* ===========================================================================
NameMarks == {"1902", "1934", "1940", "Vol_1_1"}

\* the file names: at most two of the marks occur in a name
MarkedNames == { s \in SUBSET NameMarks : Cardinality(s) <= 2 }

\* the cells of the dated column
PeriodDates ==
    { NullDate, JunkDate, D("/", 1, 2, 1902), D(".", 3, 4, 1903),
      D("/", 5, 6, 1934), D("/", 7, 8, 1905) }

\* the tables of n rows with one dated column
DatedTables(n) ==
    { [n |-> n, columns |-> <<Column(h, c)>>] :
        h \in {<<"date">>, <<"return", "date">>, <<"person", "name">>},
        c \in [1..n -> PeriodDates] }

\* the table as find_best_column sees it: a cell is missing or it is not
AsCells(df) ==
    [n |-> df.n,
     columns |-> [k \in DOMAIN df.columns |->
                    Column(df.columns[k].name,
                           [i \in DOMAIN df.columns[k].cells |->
                              IF df.columns[k].cells[i] = NullDate THEN Null ELSE Txt])]]

\* '<mark>' in filename, and '<mark>' in filename.lower()
InName(name, mark) == mark \in name
InLowerName(name, mark) == \E m \in name : Lower(m) = mark

\* the chain of file-name tests of detect_period
PeriodOfName(name) ==
    IF InName(name, "1902") THEN "1902"
    ELSE IF InName(name, "1934") THEN "1934"
    ELSE IF InName(name, "1940") THEN "1940"
    ELSE IF InLowerName(name, "vol_1_1") THEN "1903-1904"
    ELSE "none"

\* the chain of file-name tests of load_data in verifier_final
FinalPeriodOfName(name) ==
    IF InName(name, "1902") THEN "1902"
    ELSE IF InLowerName(name, "vol_1_1") THEN "1903-1904"
    ELSE IF InName(name, "1934") THEN "1934"
    ELSE IF InName(name, "1940") THEN "1940"
    ELSE "unknown"

\* df[date_col['column']]
CellsOf(df, name) ==
    df.columns[CHOOSE k \in DOMAIN df.columns : df.columns[k].name = name].cells

\* dates.dt.year.value_counts(): the years of the parsed dates with their counts
YearCount(dates, y) == Cardinality({ i \in DOMAIN dates : dates[i] # NaT /\ dates[i].y = y })
YearsOf(dates) == { dates[i].y : i \in { j \in DOMAIN dates : dates[j] # NaT } }

\* years.index[0]: a year with the largest count
TopYears(dates) ==
    { y \in YearsOf(dates) : \A z \in YearsOf(dates) : YearCount(dates, z) <= YearCount(dates, y) }

\* the period a top year stands for
PeriodOfYear(y) ==
    IF y = 1902 THEN "1902"
    ELSE IF y \in {1903, 1904} THEN "1903-1904"
    ELSE IF y = 1934 THEN "1934"
    ELSE IF y = 1940 THEN "1940"
    ELSE "unknown"

\* find_best_column(df, ['date'], ['return', 'transcription'])
DateColumn(df) == FindBestColumn(AsCells(df), <<"date">>, {"return", "transcription"})

\* the periods detect_period can return from the dates of the table
PeriodsOfDates(df) ==
    IF DateColumn(df) = NoColumn THEN {"unknown"}
    ELSE LET dates == ToDatetimeDayfirst(CellsOf(df, DateColumn(df).column))
         IN  IF TopYears(dates) = {} THEN {"unknown"}
             ELSE { PeriodOfYear(y) : y \in TopYears(dates) }

\* df['source_period'] = period: every row gets the tag
TagRows(df, period) == [kind |-> "tagged", rows |-> [i \in 1..df.n |-> period]]

InitPeriod ==
    /\ IdleDates
    /\ IdleVerify
    /\ IdleLoad
    /\ IdleApp
    /\ IdleStat
    /\ IdleCols
    /\ pwho \in {"v2", "final"}
    /\ pname \in MarkedNames
    /\ pdf \in UNION { DatedTables(n) : n \in 0..MaxRows }
    /\ ptag = [kind |-> "read"]

\* strashun_verifier: detect_period returns and the table is tagged
DetectPeriodTags ==
    /\ pwho = "v2" /\ ptag = [kind |-> "read"]
    /\ \/ /\ PeriodOfName(pname) # "none"
          /\ ptag' = TagRows(pdf, PeriodOfName(pname))
       \/ /\ PeriodOfName(pname) = "none"
          /\ DateColumn(pdf) # ZeroDivision
          /\ \E p \in PeriodsOfDates(pdf) : ptag' = TagRows(pdf, p)
    /\ UNCHANGED <<pwho, pname, pdf, varsDates, varsVerify, varsLoad, varsApp, varsStat, varsCols>>

\* strashun_verifier: find_best_column raises inside detect_period, the
\* handler of the file loop logs the error and the file is left out
DetectPeriodRaises ==
    /\ pwho = "v2" /\ ptag = [kind |-> "read"]
    /\ PeriodOfName(pname) = "none"
    /\ DateColumn(pdf) = ZeroDivision
    /\ ptag' = [kind |-> "skipped"]
    /\ UNCHANGED <<pwho, pname, pdf, varsDates, varsVerify, varsLoad, varsApp, varsStat, varsCols>>

\* verifier_final: load_data tags the table from the file name alone
FinalTags ==
    /\ pwho = "final" /\ ptag = [kind |-> "read"]
    /\ ptag' = TagRows(pdf, FinalPeriodOfName(pname))
    /\ UNCHANGED <<pwho, pname, pdf, varsDates, varsVerify, varsLoad, varsApp, varsStat, varsCols>>

NextPeriod == DetectPeriodTags \/ DetectPeriodRaises \/ FinalTags

SpecPeriod == InitPeriod /\ [][NextPeriod]_vars

\* the periods the file name stands for, under either order of the tests
NamePeriods ==
    { p \in {"1902", "1934", "1940"} : InName(pname, p) }
    \cup (IF InLowerName(pname, "vol_1_1") THEN {"1903-1904"} ELSE {})

\* the column of the table named date, and the periods of its most frequent years
DatedColumn == { k \in DOMAIN pdf.columns : pdf.columns[k].name = <<"date">> }
DatePeriods ==
    UNION { { PeriodOfYear(y) : y \in TopYears(ToDatetimeDayfirst(pdf.columns[k].cells)) } :
              k \in DatedColumn }

\* C26: a tagged table carries one period on every row; it is a period of the
\* file name when the name matches a convention, else the period of a most
\* frequent year of the date column, else 'unknown'.
C26_PeriodTag ==
    ptag.kind = "tagged" =>
        \E p \in {"1902", "1903-1904", "1934", "1940", "unknown"} :
            /\ \A i \in DOMAIN ptag.rows : ptag.rows[i] = p
            /\ IF NamePeriods # {} THEN p \in NamePeriods
               ELSE IF DatePeriods # {} THEN p \in DatePeriods
               ELSE p = "unknown"


\* ---------------------------------------------------------------------------
\* the row of the table in which a borrower appears first
FirstRow(name) == Min({ i \in DOMAIN ledgers : ledgers[i].borrower_name = name })

\* the catalog entries as profiles, in catalog order, before the sort
CatalogProfiles ==
    [k \in DOMAIN catalog |-> CatalogBook(catalog[k], BookTransactions(ledgers, 1, <<>>))]

\* the counts that occur in the book list
BookCounts == { books[k].transaction_count : k \in DOMAIN books }

BookListedAs(t) ==
    [transaction_id |-> t.transaction_id, borrower_name |-> t.borrower_name,
     date |-> t.date, return_date |-> t.return_date, year |-> t.year,
     gender |-> t.gender]

RECURSIVE SumCounts(_, _)
SumCounts(list, k) ==
    IF k > Len(list) THEN 0 ELSE list[k].transaction_count + SumCounts(list, k + 1)

\* the rows of the table with a book_id
WithBookId == { i \in DOMAIN ledgers : NotNa(ledgers[i].book_id) }

\* the profiles that list the transaction of row i
ProfilesListing(i) ==
    { k \in DOMAIN books :
        \E p \in DOMAIN books[k].transactions :
            books[k].transactions[p] = BookListedAs(ledgers[i]) }

\* C28: the transaction counts of the book profiles add up to the number of
\* transactions with a book_id, and each such transaction is listed in
\* exactly one profile, whatever the catalog holds.
C28_BookCountsConserved ==
    (awho = "app" /\ BooksBuilt) =>
        /\ SumCounts(books, 1) = Cardinality(WithBookId)
        /\ \A i \in WithBookId : Cardinality(ProfilesListing(i)) = 1


\* ---------------------------------------------------------------------------
\* the rows of the concatenated tables with a record id, and without one
Identified(all) == { i \in DOMAIN all : NotNa(all[i].rid) }
Unidentified(all) == { i \in DOMAIN all : ~NotNa(all[i].rid) }

\* C29: after the record-id pass the retained rows are as many as the
\* distinct record ids plus the rows without a record id, and every row
\* without a record id is retained.
C29_MissingIdsRetained ==
    lpc = "merged" =>
        LET all == Concat(ltables) IN
        /\ Len(ldf) = Cardinality({ all[i].rid : i \in Identified(all) })
                        + Cardinality(Unidentified(all))
        /\ Cardinality({ k \in DOMAIN ldf : ~NotNa(ldf[k].rid) })
              = Cardinality(Unidentified(all))


\* ---------------------------------------------------------------------------
\* the book ids and the years of the transactions listed for a borrower
ListedBookIds(b) ==
    { b.transactions[p].book_id.v :
        p \in { q \in DOMAIN b.transactions : NotNa(b.transactions[q].book_id) } }
ListedYears(b) ==
    { b.transactions[p].year.v :
        p \in { q \in DOMAIN b.transactions : NotNa(b.transactions[q].year) } }

\* the profiles of the book list with the id 0
ProfilesOfZero == { k \in DOMAIN books : books[k].book_id = Num(0) }

\* C30: the id 0 and the year 0 count like any other value: a borrower's
\* unique_books and years_active hold every book id and year of the listed
\* transactions, and a catalog entry with book_id 0 gets the transactions of
\* id 0, is no ghost, and leaves no ghost profile for id 0.
C30_ZeroIsAValue ==
    /\ (awho = "app" /\ BorrowersBuilt) =>
          \A k \in DOMAIN borrowers :
              /\ borrowers[k].unique_books = ListedBookIds(borrowers[k])
              /\ borrowers[k].years_active = ListedYears(borrowers[k])
    /\ (awho = "app" /\ BooksBuilt /\ \E c \in DOMAIN catalog : catalog[c].book_id = Num(0)) =>
          /\ \A k \in ProfilesOfZero : ~books[k].is_ghost
          /\ \E k \in ProfilesOfZero :
                books[k].transaction_count
                  = Cardinality({ i \in DOMAIN ledgers : ledgers[i].book_id = Num(0) })

====
